---------------------------- MODULE Spec2Model ----------------------------
(***************************************************************************)
(* Beeswax: CREATE TABLE parse results -> Table -> TableDiff -> ALTER      *)
(* TABLE statements.                                                       *)
(*                                                                         *)
(* Encoding of Python values                                               *)
(*   None          the empty tuple <<>>; an Optional[X] is <<>> or <<x>>   *)
(*   str           a TLA+ string                                           *)
(*   list          a sequence                                              *)
(*   object        a record of its attributes                              *)
(*   OrderedDict   a sequence of entries with pairwise distinct keys       *)
(*   dict (diff)   a sequence of [key, value] entries in insertion order   *)
(*   f-string      the sequence of its literal and interpolated pieces;    *)
(*                 Str joins the pieces into the string Python builds      *)
(*   a call        [err |-> "", val |-> v] when it returns v,              *)
(*                 [err |-> "SomeError", val |-> <<>>] when it raises      *)
(***************************************************************************)
EXTENDS Integers, Sequences, FiniteSets, TLC

VARIABLES
    pc,          \* position in cli.beeswax / Beeswax.get_hql_diff
    old_hql,     \* parse results of the --old statement
    new_hql,     \* parse results of the --new statement
    old,         \* Optional[Table]
    new,         \* Optional[Table]
    diff,        \* Optional[dict]: the result of TableDiff.diff
    statements,  \* Optional[list]: the result of HQLStatement.from_diff
    printed,     \* what the CLI has written to stdout so far
    error        \* "" or the name of the exception that ended the run

vars == <<pc, old_hql, new_hql, old, new, diff, statements, printed, error>>

None == <<>>

\* the back-quote character of the generated HQL (a TLA+ string cannot hold one)
BACK_QUOTE == "{bq}"

Some(v) == <<v>>

Ok(v) == [err |-> "", val |-> v]

Raise(e) == [err |-> e, val |-> None]

\* what follows a call: the error of the call when it raised, Then of what it returned
\* when it returned
OnOk(r, Then(_)) == IF r.err # "" THEN r ELSE Then(r.val)

\* the calls of a list comprehension: the error of the first that raises, or the list of
\* what they return
AllOk(results) ==
    IF \E i \in DOMAIN results : results[i].err # ""
    THEN results[CHOOSE i \in DOMAIN results :
                     /\ results[i].err # ""
                     /\ \A j \in 1..(i - 1) : results[j].err = ""]
    ELSE Ok([i \in DOMAIN results |-> results[i].val])

\* not (x), where evaluating x may have raised
PyNot(r) == IF r.err # "" THEN r ELSE Ok(~r.val)

RECURSIVE Str(_)
\* the string an f-string builds from its pieces
Str(pieces) == IF pieces = <<>> THEN "" ELSE Head(pieces) \o Str(Tail(pieces))

RECURSIVE Join(_, _)
\* sep.join(items), each item a sequence of pieces
Join(sep, items) ==
    IF items = <<>> THEN <<>>
    ELSE IF Len(items) = 1 THEN items[1]
    ELSE items[1] \o <<sep>> \o Join(sep, Tail(items))

RECURSIVE IntOfDigits(_, _)
\* int("<digits>"): the decimal value of a Word(nums) token
IntOfDigits(ds, acc) ==
    IF ds = <<>> THEN acc ELSE IntOfDigits(Tail(ds), 10 * acc + Head(ds))

\* a Python str or list, where the code tells the two apart with isinstance
PyStr(s) == [str |-> s]

PyList(l) == [list |-> l]

IsList(v) == "list" \in DOMAIN v

(***************************************************************************)
(* src/hql/hql_type.py: the HQL form of a complex column type.             *)
(* A type definition is the list the parser grouped: its items are strings *)
(* (PyStr) and lists (PyList). Python indexes from 0.                       *)
(***************************************************************************)

Has(l, index) == index < Len(l)

Item(l, index) == l[index + 1]

\* l[index:]
From(l, index) == SubSeq(l, index + 1, Len(l))

\* needle in s, for a one-character needle and a string s
Contains(s, needle) == \E i \in 1..Len(s) : SubSeq(s, i, i) = needle

RECURSIVE Repr(_)
RECURSIVE ReprItems(_)
\* repr(v): a str in quotes (double quotes if it holds a single one), a list in brackets
Repr(v) ==
    IF IsList(v) THEN "[" \o ReprItems(v.list) \o "]"
    ELSE IF Contains(v.str, "'") /\ ~Contains(v.str, "\"") THEN "\"" \o v.str \o "\""
    ELSE "'" \o v.str \o "'"

ReprItems(l) ==
    IF l = <<>> THEN ""
    ELSE IF Len(l) = 1 THEN Repr(l[1])
    ELSE Repr(l[1]) \o ", " \o ReprItems(Tail(l))

\* f"{v}"
Format(v) == IF IsList(v) THEN Repr(v) ELSE v.str

\* v in types, types a list of str
In(v, types) == ~IsList(v) /\ \E i \in DOMAIN types : types[i] = v.str

INTEGER_TYPES == <<"BIGINT", "INT", "INTEGER", "SMALLINT", "TINYINT">>

FLOAT_TYPES == <<"DOUBLE", "FLOAT">>

DECIMAL_TYPES == <<"DECIMAL", "NUMERIC">>

SIMPLE_TYPES == <<"BINARY", "BOOLEAN", "DATE", "INTERVAL", "STRING", "TIMESTAMP">>

CHAR_TYPES == <<"CHAR", "VARCHAR">>

COMPLEX_TYPES == <<"ARRAY", "MAP", "STRUCT", "UNION">>

RECURSIVE generate(_)
RECURSIVE generate_array(_)
RECURSIVE generate_map(_)
RECURSIVE generate_struct(_)
RECURSIVE StructLoop(_, _, _)
RECURSIVE generate_union(_)
RECURSIVE UnionLoop(_, _, _)

\* HQLType.generate_array
generate_array(array_def) ==
    IF ~Has(array_def, 0) THEN Raise("ParseException")
    ELSE LET token == Item(array_def, 0)
             inner == generate(token.list)
         IN  IF IsList(token)
             THEN IF inner.err # "" THEN inner ELSE Ok("ARRAY<" \o inner.val \o ">")
             ELSE IF Len(array_def) > 1
             THEN Ok("ARRAY<" \o token.str \o "(" \o Format(Item(array_def, 1)) \o ")" \o ">")
             ELSE Ok("ARRAY<" \o token.str \o ">")

\* the value of a map: the rest of map_def after its key
MapValue(key, value_type) ==
    IF ~Has(value_type, 0) THEN Raise("ParseException")
    ELSE LET inner == generate(Item(value_type, 0).list)
         IN  IF IsList(Item(value_type, 0))
             THEN IF inner.err # "" THEN inner
                  ELSE Ok("MAP<" \o key \o ", " \o inner.val \o ">")
             ELSE IF Len(value_type) > 1
             THEN Ok("MAP<" \o key \o ", " \o Format(Item(value_type, 0)) \o "("
                     \o Format(Item(value_type, 1)) \o ")" \o ">")
             ELSE Ok("MAP<" \o key \o ", " \o Item(value_type, 0).str \o ">")

\* HQLType.generate_map; length.isnumeric is the method, not its result: it is true of
\* every str, and a list has no such attribute
generate_map(map_def) ==
    IF ~Has(map_def, 0) THEN Raise("ParseException")
    ELSE LET token == Item(map_def, 0)
         IN  IF In(token, CHAR_TYPES)
             THEN IF ~Has(map_def, 1) THEN Raise("ParseException")
                  ELSE MapValue(token.str \o "(" \o Format(Item(map_def, 1)) \o ")",
                                From(map_def, 2))
             ELSE IF In(token, DECIMAL_TYPES)
             THEN IF ~Has(map_def, 1) THEN Raise("ParseException")
                  ELSE IF IsList(Item(map_def, 1)) THEN Raise("AttributeError")
                  ELSE MapValue(token.str \o "(" \o Item(map_def, 1).str \o ")",
                                From(map_def, 2))
             ELSE MapValue(Format(token), From(map_def, 1))

\* the optional comment after a col_name:col_type of a struct, then the next turn
StructComment(struct_def, index, definition) ==
    IF Len(struct_def) > index
       /\ ~IsList(Item(struct_def, index))
       /\ (Contains(Item(struct_def, index).str, "'")
           \/ Contains(Item(struct_def, index).str, "\""))
    THEN StructLoop(struct_def, index + 1,
                    definition \o " COMMENT " \o Item(struct_def, index).str)
    ELSE StructLoop(struct_def, index, definition)

\* the while loop of generate_struct
StructLoop(struct_def, index, definition) ==
    IF ~(index < Len(struct_def)) THEN Ok(definition \o ">")
    ELSE IF ~Has(struct_def, index + 1) THEN Raise("ParseException")
    ELSE LET comma == IF index > 0 THEN ", " ELSE ""
             col_name == Format(Item(struct_def, index))
             col_type == Item(struct_def, index + 1)
             result == generate(col_type.list)
         IN  IF IsList(col_type)
             THEN IF result.err # "" THEN result
                  ELSE StructComment(struct_def, index + 2,
                           definition \o comma \o col_name \o ":" \o result.val)
             ELSE IF In(col_type, CHAR_TYPES)
             THEN IF ~Has(struct_def, index + 2) THEN Raise("ParseException")
                  ELSE StructComment(struct_def, index + 3,
                           definition \o comma \o col_name \o ":" \o col_type.str \o "("
                           \o Format(Item(struct_def, index + 2)) \o ")")
             ELSE IF In(col_type, DECIMAL_TYPES)
             THEN IF ~Has(struct_def, index + 2) THEN Raise("ParseException")
                  ELSE IF IsList(Item(struct_def, index + 2)) THEN Raise("AttributeError")
                  ELSE StructComment(struct_def, index + 3,
                           definition \o comma \o col_name \o ":" \o col_type.str \o "("
                           \o Item(struct_def, index + 2).str \o ")")
             ELSE StructComment(struct_def, index + 2,
                      definition \o comma \o col_name \o ":" \o col_type.str)

\* HQLType.generate_struct
generate_struct(struct_def) == StructLoop(struct_def, 0, "STRUCT<")

\* the while loop of generate_union
UnionLoop(union_def, index, definition) ==
    IF ~(index < Len(union_def)) THEN Ok(definition \o ">")
    ELSE LET comma == IF index > 0 THEN ", " ELSE ""
             token == Item(union_def, index)
             result == generate(token.list)
         IN  IF IsList(token)
             THEN IF result.err # "" THEN result
                  ELSE UnionLoop(union_def, index + 1, definition \o comma \o result.val)
             ELSE IF In(token, CHAR_TYPES)
             THEN IF ~Has(union_def, index + 1) THEN Raise("ParseException")
                  ELSE UnionLoop(union_def, index + 2,
                           definition \o comma \o token.str \o "("
                           \o Format(Item(union_def, index + 1)) \o ")")
             ELSE IF In(token, DECIMAL_TYPES)
             THEN IF ~Has(union_def, index + 1) THEN Raise("ParseException")
                  ELSE IF IsList(Item(union_def, index + 1)) THEN Raise("AttributeError")
                  ELSE UnionLoop(union_def, index + 2,
                           definition \o comma \o token.str \o "("
                           \o Item(union_def, index + 1).str \o ")")
             ELSE UnionLoop(union_def, index + 1, definition \o comma \o token.str)

\* HQLType.generate_union
generate_union(union_def) == UnionLoop(union_def, 0, "UNION<")

\* HQLType.generate: the generator of type_definition[0], applied to type_definition[1];
\* a KeyError or an IndexError of its own becomes a ParseException. In a list of the
\* grammar the second item is a list.
generate(type_definition) ==
    IF ~Has(type_definition, 0) THEN Raise("ParseException")
    ELSE IF IsList(Item(type_definition, 0)) THEN Raise("TypeError")
    ELSE IF ~In(Item(type_definition, 0), COMPLEX_TYPES) THEN Raise("ParseException")
    ELSE IF ~Has(type_definition, 1) THEN Raise("ParseException")
    ELSE LET keyword == Item(type_definition, 0).str
             definition == Item(type_definition, 1).list
         IN  CASE keyword = "ARRAY" -> generate_array(definition)
               [] keyword = "MAP" -> generate_map(definition)
               [] keyword = "STRUCT" -> generate_struct(definition)
               [] keyword = "UNION" -> generate_union(definition)

(***************************************************************************)
(* src/model: the entities, their comparisons and their HQL forms          *)
(***************************************************************************)

\* ---- Column ----
Column(name, type, length, comment) ==
    [name |-> name, type |-> type, length |-> length, comment |-> comment]

\* Column.__eq__ comparing the name and the type only
ColumnEq_NameAndType(self, other) ==
    IF other = None THEN Ok(FALSE)
    ELSE Ok(<<self.name, self.type>> = <<other[1].name, other[1].type>>)

\* Column.__eq__(self, other), other an Optional[Column]
ColumnEq(self, other) ==
    IF other = None THEN Ok(FALSE)
    ELSE Ok(<<self.name, self.type, self.length, self.comment>>
            = <<other[1].name, other[1].type, other[1].length, other[1].comment>>)

ColumnNe(self, other) == PyNot(ColumnEq(self, other))

ColumnCommentDef(c) ==
    IF c.comment # None /\ c.comment[1] # "" THEN <<"COMMENT ", c.comment[1]>> ELSE <<"">>

ColumnLengthDef(c) ==
    IF c.length # None /\ c.length[1] # "" THEN <<"(", c.length[1], ")">> ELSE <<"">>

\* Column.type_def: HQLType.generate for a list, which may raise
ColumnTypeDef(c) ==
    IF IsList(c.type)
    THEN OnOk(generate(c.type.list), LAMBDA definition : Ok(<<definition>>))
    ELSE Ok(<<c.type.str>> \o ColumnLengthDef(c))

\* Column.hql
ColumnHql(c) ==
    OnOk(ColumnTypeDef(c),
         LAMBDA type_def : Ok(<<BACK_QUOTE, c.name, BACK_QUOTE, " ">> \o type_def \o <<" ">>
                              \o ColumnCommentDef(c)))

\* ---- Location ----
Location(location) == [location |-> location]

\* Location.__ne__ written as a copy of __eq__
LocationNe_CopyOfEq(self, other) ==
    IF other = None THEN Ok(FALSE) ELSE Ok(self.location = other[1].location)

\* Location.__ne__(self, other), other an Optional[Location]
LocationNe(self, other) ==
    IF other = None THEN Ok(FALSE) ELSE Ok(self.location # other[1].location)

LocationHql(l) == <<"LOCATION ", l.location>>

\* ---- ClusteredBy ----
ClusteredBy(columns, buckets, sorted_by) ==
    [columns |-> columns, buckets |-> buckets, sorted_by |-> sorted_by]

ClusteredByEq(self, other) ==
    IF other = None THEN Raise("AttributeError")
    ELSE Ok(<<self.columns, self.buckets, self.sorted_by>>
            = <<other[1].columns, other[1].buckets, other[1].sorted_by>>)

ClusteredByNe(self, other) == PyNot(ClusteredByEq(self, other))

SortPiece(sort) ==
    IF Len(sort) = 2 THEN <<BACK_QUOTE, sort[1], BACK_QUOTE, " ", sort[2]>>
    ELSE IF Len(sort) = 1 THEN <<BACK_QUOTE, sort[1], BACK_QUOTE>>
    ELSE <<>>

BackQuoted(col) == <<BACK_QUOTE, col, BACK_QUOTE>>

ClusteredByHql(c) ==
    LET column_def == <<"(">> \o Join(", ", [i \in DOMAIN c.columns |-> BackQuoted(c.columns[i])])
                      \o <<")">>
        bucket_def == <<"INTO ", ToString(c.buckets), " BUCKETS">>
        sorted_def ==
            IF c.sorted_by # None /\ c.sorted_by[1] # <<>>
            THEN <<" SORTED BY (">>
                 \o Join(", ", [i \in DOMAIN c.sorted_by[1] |-> SortPiece(c.sorted_by[1][i])])
                 \o <<")">>
            ELSE <<"">>
    IN  <<"CLUSTERED BY ">> \o column_def \o sorted_def \o <<" ">> \o bucket_def

\* ---- key/value lists (TBLPROPERTIES, SERDEPROPERTIES) ----
KeyValue(kv) == <<kv[1], "=", kv[2]>>

Properties(props) == Join(", ", [i \in DOMAIN props |-> KeyValue(props[i])])

\* ---- RowFormat ----
RowFormat(row_format, fields_terminated_by, escaped_by, collection_items_terminated_by, map_keys_terminated_by, lines_terminated_by, null_defined_as, serde, serde_properties) ==
    [row_format |-> row_format,
     fields_terminated_by |-> fields_terminated_by,
     escaped_by |-> escaped_by,
     collection_items_terminated_by |-> collection_items_terminated_by,
     map_keys_terminated_by |-> map_keys_terminated_by,
     lines_terminated_by |-> lines_terminated_by,
     null_defined_as |-> null_defined_as,
     serde |-> serde,
     serde_properties |-> serde_properties]

RowFormatEq(self, other) ==
    IF other = None THEN Raise("AttributeError") ELSE Ok(self = other[1])

RowFormatNe(self, other) == PyNot(RowFormatEq(self, other))

\* f"<label> {value} " when the value is set, else ""
Delimiter(label, value, tail) ==
    IF value # None /\ value[1] # "" THEN <<label, value[1]>> \o tail ELSE <<"">>

RowFormatHql(r) ==
    IF r.row_format = "DELIMITED"
    THEN <<"ROW FORMAT ", r.row_format, " ">>
         \o Delimiter("FIELDS TERMINATED BY ", r.fields_terminated_by, <<" ">>)
         \o Delimiter("ESCAPED BY ", r.escaped_by, <<" ">>)
         \o Delimiter("COLLECTION ITEMS TERMINATED BY ", r.collection_items_terminated_by, <<>>)
         \o Delimiter("MAP KEYS TERMINATED BY ", r.map_keys_terminated_by, <<" ">>)
         \o Delimiter("LINES TERMINATED BY ", r.lines_terminated_by, <<" ">>)
         \o Delimiter("NULL DEFINED AS ", r.null_defined_as, <<" ">>)
    ELSE IF r.row_format = "SERDE"
    THEN <<"ROW FORMAT ", r.row_format, " ", r.serde[1]>>
         \o (IF r.serde_properties # None /\ r.serde_properties[1] # <<>>
             THEN <<" WITH SERDEPROPERTIES(">> \o Properties(r.serde_properties[1]) \o <<")">>
             ELSE <<"">>)
    ELSE <<"None">>

\* ---- SkewedBy ----
SkewedBy(columns, values, stored_as_directories) ==
    [columns |-> columns, values |-> values, stored_as_directories |-> stored_as_directories]

SkewedByEq(self, other) ==
    IF other = None THEN Raise("AttributeError")
    ELSE Ok(<<self.columns, self.values, self.stored_as_directories>>
            = <<other[1].columns, other[1].values, other[1].stored_as_directories>>)

SkewedByNe(self, other) == PyNot(SkewedByEq(self, other))

\* the values of this model are a flat list of value tokens
SkewedByHql(s) ==
    <<"SKEWED BY (">> \o Join(", ", [i \in DOMAIN s.columns |-> BackQuoted(s.columns[i])])
    \o <<") ON (">> \o Join(", ", [i \in DOMAIN s.values |-> <<s.values[i]>>]) \o <<")">>
    \o (IF s.stored_as_directories THEN <<" STORED AS DIRECTORIES">> ELSE <<"">>)

\* ---- Storage ----
Storage(storage, storage_qualifier, serde_properties) ==
    [storage |-> storage, storage_qualifier |-> storage_qualifier,
     serde_properties |-> serde_properties]

StorageEq(self, other) ==
    IF other = None THEN Raise("AttributeError")
    ELSE Ok(<<self.storage, self.storage_qualifier, self.serde_properties>>
            = <<other[1].storage, other[1].storage_qualifier, other[1].serde_properties>>)

StorageNe(self, other) == PyNot(StorageEq(self, other))

StorageHql(s) ==
    <<"STORED ", s.storage_qualifier, " ", s.storage>>
    \o (IF s.serde_properties # None /\ s.serde_properties[1] # <<>>
        THEN <<" WITH SERDEPROPERTIES(">> \o Properties(s.serde_properties[1]) \o <<")">>
        ELSE <<"">>)

\* ---- TableProperties ----
TableProperties(table_properties) == [table_properties |-> table_properties]

TablePropertiesEq(self, other) ==
    IF other = None THEN Raise("AttributeError")
    ELSE Ok(self.table_properties = other[1].table_properties)

TablePropertiesNe(self, other) == PyNot(TablePropertiesEq(self, other))

TablePropertiesHql(p) == <<"TBLPROPERTIES(">> \o Properties(p.table_properties) \o <<")">>

\* ---- Table ----
\* Table.__init__: the four constructor arguments; every other attribute starts unset
Table(name, modifier, comment, partition) ==
    [name |-> name, modifier |-> modifier, comment |-> comment, partition |-> partition,
     clustered_by |-> None, columns |-> <<>>, location |-> None, row_format |-> None,
     skewed_by |-> None, storage |-> None, table_properties |-> None]


\* OrderedDict.get(name): the entry of that key, or None
ColumnsGet(columns, name) ==
    IF \E i \in DOMAIN columns : columns[i].name = name
    THEN Some(columns[CHOOSE i \in DOMAIN columns : columns[i].name = name])
    ELSE None

ColumnsKeys(columns) == {columns[i].name : i \in DOMAIN columns}

(***************************************************************************)
(* src/model/model_factory.py: Table objects from the parse results.       *)
(* The parse results are a record of the results names of                  *)
(* src/parser/definitions.py; a name the statement did not set is None     *)
(* (pyparsing answers "" for it, which is as false as None).               *)
(***************************************************************************)

ParseResults(table_name, table_modifier, table_comment, partition, column_list, location, clustered_by, skewed_by, row_format, storage, properties) ==
    [table_name |-> table_name, table_modifier |-> table_modifier,
     comment |-> None,   \* "comment" is a results name of COLUMN_DEF, inside its Group only
     table_comment |-> table_comment, partition |-> partition,
     column_list |-> column_list, location |-> location, clustered_by |-> clustered_by,
     skewed_by |-> skewed_by, row_format |-> row_format, storage |-> storage,
     properties |-> properties]

get_clustered_by(r) ==
    IF r.clustered_by = None THEN Ok(None)
    ELSE LET c == r.clustered_by[1]
         IN  Ok(Some(ClusteredBy(c.clustered_by_cols, IntOfDigits(c.buckets, 0), c.sorted_by)))

get_column(c) == Column(c.column_name, c.column_type, c.length, c.comment)

RECURSIVE OrderedDictOf(_, _)
\* OrderedDict(pairs): a repeated key keeps its first position and takes the last value
OrderedDictOf(cols, acc) ==
    IF cols = <<>> THEN acc
    ELSE LET c == Head(cols)
         IN  OrderedDictOf(Tail(cols),
                 IF c.name \in ColumnsKeys(acc)
                 THEN [i \in DOMAIN acc |-> IF acc[i].name = c.name THEN c ELSE acc[i]]
                 ELSE Append(acc, c))

get_columns(r) ==
    Ok(OrderedDictOf([i \in DOMAIN r.column_list |-> get_column(r.column_list[i])], <<>>))

get_location(r) ==
    IF r.location # None /\ r.location[1] # "" THEN Ok(Some(Location(r.location[1])))
    ELSE Ok(None)

get_row_format(r) ==
    IF r.row_format = None THEN Ok(None)
    ELSE LET f == r.row_format[1]
         IN  IF f.row_format_delimited # None
             THEN LET d == f.row_format_delimited[1]
                  IN  Ok(Some(RowFormat("DELIMITED", d.fields_terminated_by, d.escaped_by,
                                        d.collection_items_terminated_by,
                                        d.map_keys_terminated_by, d.lines_terminated_by,
                                        d.null_defined_as, None, None)))
             ELSE IF f.row_format_serde # None
             THEN LET e == f.row_format_serde[1]
                  IN  Ok(Some(RowFormat("SERDE", None, None, None, None, None, None,
                                        Some(e[1]),
                                        IF Len(e) > 1 THEN Some(e[2]) ELSE None)))
             ELSE Ok(None)

get_skewed_by(r) ==
    IF r.skewed_by = None THEN Ok(None)
    ELSE LET k == r.skewed_by[1]
         IN  Ok(Some(SkewedBy(k.skewed_by_columns, k.skewed_by_values,
                              k.stored_as_directories # "")))

\* serde_properties.asList() is evaluated whatever serde_properties is
get_storage(r) ==
    IF r.storage = None THEN Ok(None)
    ELSE LET g == r.storage[1]
             storage == IF g.stored_as # None THEN g.stored_as[1] ELSE g.stored_by[1][1]
             storage_qualifier == IF g.stored_as # None THEN "AS" ELSE "BY"
             serde_properties ==
                 IF g.stored_as # None THEN None
                 ELSE IF Len(g.stored_by[1]) > 1 THEN Some(g.stored_by[1][2]) ELSE None
         IN  IF serde_properties = None THEN Raise("AttributeError")
             ELSE Ok(Some(Storage(storage, storage_qualifier, serde_properties)))

get_table(r) == Ok(Table(r.table_name, r.table_modifier, r.comment, r.partition))

\* the properties read into a dict and back: a key once, with its last value
get_table_properties_AsDict(r) ==
    IF r.properties # None /\ r.properties[1] # <<>>
    THEN LET pairs == r.properties[1]
             Last(key) == CHOOSE i \in DOMAIN pairs :
                              /\ pairs[i][1] = key
                              /\ \A j \in DOMAIN pairs : pairs[j][1] = key => j <= i
             firsts == SelectSeq([i \in DOMAIN pairs |-> <<i, pairs[i][1]>>],
                                 LAMBDA e : \A j \in 1..(e[1] - 1) : pairs[j][1] # e[2])
         IN  Ok(Some(TableProperties([i \in DOMAIN firsts |->
                                         <<firsts[i][2], pairs[Last(firsts[i][2])][2]>>])))
    ELSE Ok(None)

get_table_properties(r) ==
    IF r.properties # None /\ r.properties[1] # <<>>
    THEN Ok(Some(TableProperties(r.properties[1])))
    ELSE Ok(None)

(***************************************************************************)
(* src/parser/hql_parser.py                                                *)
(***************************************************************************)

\* HQLParser.parse_create_table, from the parse results on: the factory calls in the
\* order of the code; the first one that raises ends the call
parse_create_table(r) ==
    LET table == get_table(r).val
        columns == get_columns(r)
        location == get_location(r)
        clustered_by == get_clustered_by(r)
        skewed_by == get_skewed_by(r)
        row_format == get_row_format(r)
        storage == get_storage(r)
        table_properties == get_table_properties(r)
    IN  IF storage.err # "" THEN Raise(storage.err)
        ELSE Ok([table EXCEPT !.columns = columns.val,
                              !.location = location.val,
                              !.clustered_by = clustered_by.val,
                              !.skewed_by = skewed_by.val,
                              !.row_format = row_format.val,
                              !.storage = storage.val,
                              !.table_properties = table_properties.val])

(***************************************************************************)
(* src/parser/definitions.py: the grammar.                                 *)
(* pyparsing skips white space before each expression, so a statement is   *)
(* read as its tokens: a word, a number, a quoted string with its quotes,  *)
(* a back quote or a punctuation mark. Words are in upper case where the   *)
(* grammar has a CaselessLiteral. An expression of the grammar is an       *)
(* operator of the tokens and a position; it answers ok, the position      *)
(* after the match and what was matched, or a failure, fatal when          *)
(* pyparsing raises ParseSyntaxException (after the "-" of a complex type).*)
(***************************************************************************)

nums == {"0", "1", "2", "3", "4", "5", "6", "7", "8", "9"}

alphas ==
    {"a", "b", "c", "d", "e", "f", "g", "h", "i", "j", "k", "l", "m", "n", "o", "p", "q",
     "r", "s", "t", "u", "v", "w", "x", "y", "z", "A", "B", "C", "D", "E", "F", "G", "H",
     "I", "J", "K", "L", "M", "N", "O", "P", "Q", "R", "S", "T", "U", "V", "W", "X", "Y",
     "Z"}

\* the characters of OBJECT_NAME: alphanums, "_" and "-"
WordChars == alphas \cup nums \cup {"_", "-"}

WhiteSpace == {" ", "\n", "\t"}

\* the least of a set of positions, or otherwise when the set is empty
First(positions, otherwise) ==
    IF positions = {} THEN otherwise
    ELSE CHOOSE k \in positions : \A m \in positions : k <= m

RECURSIVE Past(_, _, _)
\* the first position from i on whose character is not one of chars, Len(hql) + 1 if
\* there is none
Past(hql, i, chars) ==
    IF i <= Len(hql) /\ SubSeq(hql, i, i) \in chars THEN Past(hql, i + 1, chars) ELSE i

\* the last position of the token that starts at position i: a quoted string goes to its
\* closing quote, a word to its last character, anything else is one mark
TokenEnd(hql, i) ==
    LET ch == SubSeq(hql, i, i)
    IN  IF ch \in {"'", "\""}
        THEN First({k \in (i + 1)..Len(hql) : SubSeq(hql, k, k) = ch}, Len(hql))
        ELSE IF i + Len(BACK_QUOTE) - 1 <= Len(hql)
                /\ SubSeq(hql, i, i + Len(BACK_QUOTE) - 1) = BACK_QUOTE
        THEN i + Len(BACK_QUOTE) - 1
        ELSE IF ch \in WordChars THEN Past(hql, i, WordChars) - 1
        ELSE i

\* the first position from i on that is not white space, Len(hql) + 1 if there is none
TokenStart(hql, i) == Past(hql, i, WhiteSpace)

RECURSIVE LexFrom(_, _, _)
\* the tokens of hql from the token at position i on; i is the start of a token or
\* Len(hql) + 1
LexFrom(hql, i, tokens) ==
    IF i > Len(hql) THEN tokens
    ELSE LexFrom(hql, TokenStart(hql, TokenEnd(hql, i) + 1),
                 Append(tokens, SubSeq(hql, i, TokenEnd(hql, i))))

Lex(hql) == LexFrom(hql, TokenStart(hql, 1), <<>>)

Tok(t, p) == IF p \in DOMAIN t THEN t[p] ELSE ""

Chars(s) == {SubSeq(s, i, i) : i \in 1..Len(s)}

\* Word(chars): a token made of these characters
Word(tok, chars) == tok # "" /\ Chars(tok) \subseteq chars

LENGTH(tok) == Word(tok, nums)

OBJECT_NAME(tok) == Word(tok, WordChars)

\* QuotedString(unquoteResults=False): the token is the string with its quotes
QUOTED_STRING_WITH_QUOTE(tok) ==
    /\ Len(tok) >= 2
    /\ SubSeq(tok, 1, 1) \in {"'", "\""}
    /\ SubSeq(tok, Len(tok), Len(tok)) = SubSeq(tok, 1, 1)

\* the words of a sequence of CaselessLiterals are the next tokens
Literals(t, p, words) == \A i \in DOMAIN words : Tok(t, p + i - 1) = words[i]

NoMatch == [ok |-> FALSE, fatal |-> FALSE]

SyntaxError == [ok |-> FALSE, fatal |-> TRUE]

Match(pos, val) == [ok |-> TRUE, fatal |-> FALSE, pos |-> pos, val |-> val]

\* ParserElement._parse: the expression of the grammar that has this name, applied to the
\* tokens t at position p; so_far is what the enclosing expression holds when it applies
\* the expression (the matches of a repetition, the results names of the settings)
RECURSIVE Element(_, _, _, _)

\* COLUMN_NAME, TABLE_NAME: a back-quoted name or an OBJECT_NAME
COLUMN_NAME(t, p) ==
    IF Tok(t, p) = BACK_QUOTE /\ Tok(t, p + 1) \notin {"", BACK_QUOTE} /\ Tok(t, p + 2) = BACK_QUOTE
    THEN Match(p + 3, Tok(t, p + 1))
    ELSE IF Tok(t, p) # BACK_QUOTE /\ OBJECT_NAME(Tok(t, p)) THEN Match(p + 1, Tok(t, p))
    ELSE NoMatch

\* COL_LEN: ( LENGTH )
COL_LEN(t, p) ==
    IF Tok(t, p) = "(" /\ LENGTH(Tok(t, p + 1)) /\ Tok(t, p + 2) = ")"
    THEN Match(p + 3, Tok(t, p + 1))
    ELSE NoMatch

\* DECIMAL_LEN: ( LENGTH [, LENGTH] ), joined with ","
DECIMAL_LEN(t, p) ==
    IF Tok(t, p) = "(" /\ LENGTH(Tok(t, p + 1))
    THEN IF Tok(t, p + 2) = "," /\ LENGTH(Tok(t, p + 3))
         THEN IF Tok(t, p + 4) = ")"
              THEN Match(p + 5, Tok(t, p + 1) \o "," \o Tok(t, p + 3))
              ELSE NoMatch
         ELSE IF Tok(t, p + 2) = ")" THEN Match(p + 3, Tok(t, p + 1))
         ELSE NoMatch
    ELSE NoMatch

\* the CaselessLiteral of the list, the first in its order, that the token starts with
FirstLiteral(tok, literals) ==
    LET starts == {i \in DOMAIN literals :
                       /\ Len(tok) >= Len(literals[i])
                       /\ SubSeq(tok, 1, Len(literals[i])) = literals[i]}
    IN  IF starts = {} THEN "" ELSE literals[CHOOSE i \in starts : \A j \in starts : i <= j]

\* what a type contributes to its group (tokens) and to the results names of the group
TypeMatch(pos, tokens, column_type, length) ==
    Match(pos, [tokens |-> tokens, column_type |-> column_type, length |-> length])

\* one of INT_DEF, FLOAT_DEF, SIMPLE_DEF matched the start of the word: the rest of the
\* word, when there is one, is what the enclosing expression has to go on with, and no
\* expression that follows a type accepts a word
SimpleType(t, p, literals) ==
    LET literal == FirstLiteral(Tok(t, p), literals)
    IN  IF literal = "" THEN NoMatch
        ELSE IF literal # Tok(t, p) THEN [ok |-> FALSE, fatal |-> FALSE, rest |-> TRUE]
        ELSE TypeMatch(p + 1, <<PyStr(literal)>>, PyStr(literal), None)

\* DECIMAL_DEF: DECIMAL_TYPE [DECIMAL_LEN]
DECIMAL_DEF(t, p) ==
    LET literal == FirstLiteral(Tok(t, p), DECIMAL_TYPES)
        length == Element("DECIMAL_LEN", t, p + 1, <<>>)
    IN  IF literal = "" THEN NoMatch
        ELSE IF literal # Tok(t, p) THEN [ok |-> FALSE, fatal |-> FALSE, rest |-> TRUE]
        ELSE IF length.ok
        THEN TypeMatch(length.pos, <<PyStr(literal), PyStr(length.val)>>, PyStr(literal),
                       Some(length.val))
        ELSE TypeMatch(p + 1, <<PyStr(literal)>>, PyStr(literal), None)

\* CHAR_DEF: CHAR_TYPE COL_LEN
CHAR_DEF(t, p) ==
    LET literal == FirstLiteral(Tok(t, p), CHAR_TYPES)
        length == Element("COL_LEN", t, p + 1, <<>>)
    IN  IF literal = "" \/ literal # Tok(t, p) \/ ~length.ok THEN NoMatch
        ELSE TypeMatch(length.pos, <<PyStr(literal), PyStr(length.val)>>, PyStr(literal),
                       Some(length.val))

\* PRIMITIVE_TYPE: INT_DEF | FLOAT_DEF | DECIMAL_DEF | SIMPLE_DEF | CHAR_DEF, the first
\* that matches; one that matched the start of a longer word ends the parse there
PRIMITIVE_TYPE(t, p) ==
    LET int == SimpleType(t, p, INTEGER_TYPES)
        float == SimpleType(t, p, FLOAT_TYPES)
        decimal == Element("DECIMAL_DEF", t, p, <<>>)
        simple == SimpleType(t, p, SIMPLE_TYPES)
        char == Element("CHAR_DEF", t, p, <<>>)
        Took(r) == r.ok \/ "rest" \in DOMAIN r
    IN  IF Took(int) THEN (IF int.ok THEN int ELSE NoMatch)
        ELSE IF Took(float) THEN (IF float.ok THEN float ELSE NoMatch)
        ELSE IF Took(decimal) THEN (IF decimal.ok THEN decimal ELSE NoMatch)
        ELSE IF Took(simple) THEN (IF simple.ok THEN simple ELSE NoMatch)
        ELSE char

\* COMMENT: the word COMMENT and a quoted string, combined into the string
COMMENT(t, p) ==
    IF Tok(t, p) = "COMMENT" /\ QUOTED_STRING_WITH_QUOTE(Tok(t, p + 1))
    THEN Match(p + 2, Tok(t, p + 1))
    ELSE NoMatch


\* the group of a complex type: its keyword and the group of what is between < and >
ComplexMatch(pos, keyword, inner) ==
    LET group == PyList(<<PyStr(keyword), PyList(inner)>>)
    IN  TypeMatch(pos, <<group>>, group, None)

\* ARRAY_TYPE: ARRAY - < Group(TYPE_DECL) >
ARRAY_TYPE(t, p) ==
    IF Tok(t, p) # "ARRAY" THEN NoMatch
    ELSE IF Tok(t, p + 1) # "<" THEN SyntaxError
    ELSE LET type == Element("TYPE_DECL", t, p + 2, <<>>)
         IN  IF ~type.ok \/ Tok(t, type.pos) # ">" THEN SyntaxError
             ELSE ComplexMatch(type.pos + 1, "ARRAY", type.val.tokens)

\* MAP_TYPE: MAP - < Group(PRIMITIVE_TYPE , TYPE_DECL) >
MAP_TYPE(t, p) ==
    IF Tok(t, p) # "MAP" THEN NoMatch
    ELSE IF Tok(t, p + 1) # "<" THEN SyntaxError
    ELSE LET key == Element("PRIMITIVE_TYPE", t, p + 2, <<>>)
         IN  IF ~key.ok \/ Tok(t, key.pos) # "," THEN SyntaxError
             ELSE LET value == Element("TYPE_DECL", t, key.pos + 1, <<>>)
                  IN  IF ~value.ok \/ Tok(t, value.pos) # ">" THEN SyntaxError
                      ELSE ComplexMatch(value.pos + 1, "MAP",
                                        key.val.tokens \o value.val.tokens)

\* STRUCT_COLUMN_DEF: COLUMN_NAME : TYPE_DECL [COMMENT]
STRUCT_COLUMN_DEF(t, p) ==
    LET name == Element("COLUMN_NAME", t, p, <<>>)
    IN  IF ~name.ok \/ Tok(t, name.pos) # ":" THEN NoMatch
        ELSE LET type == Element("TYPE_DECL", t, name.pos + 1, <<>>)
                 comment == Element("COMMENT", t, type.pos, <<>>)
             IN  IF ~type.ok THEN type
                 ELSE IF comment.ok
                 THEN Match(comment.pos,
                            <<PyStr(name.val)>> \o type.val.tokens \o <<PyStr(comment.val)>>)
                 ELSE Match(type.pos, <<PyStr(name.val)>> \o type.val.tokens)

\* STRUCT_COLUMN_DEF ZeroOrMore(, STRUCT_COLUMN_DEF), from the first one on
StructColumns(t, p, tokens) ==
    LET column == Element("STRUCT_COLUMN_DEF", t, p + 1, <<>>)
    IN  IF Tok(t, p) # "," THEN Match(p, tokens)
        ELSE IF column.fatal THEN column
        ELSE IF ~column.ok THEN Match(p, tokens)
        ELSE Element("StructColumns", t, column.pos, tokens \o column.val)

\* STRUCT_TYPE: STRUCT - < Group(STRUCT_COLUMN_DEF ZeroOrMore(, STRUCT_COLUMN_DEF)) >
STRUCT_TYPE(t, p) ==
    IF Tok(t, p) # "STRUCT" THEN NoMatch
    ELSE IF Tok(t, p + 1) # "<" THEN SyntaxError
    ELSE LET first == Element("STRUCT_COLUMN_DEF", t, p + 2, <<>>)
         IN  IF ~first.ok THEN SyntaxError
             ELSE LET columns == Element("StructColumns", t, first.pos, first.val)
                  IN  IF ~columns.ok \/ Tok(t, columns.pos) # ">" THEN SyntaxError
                      ELSE ComplexMatch(columns.pos + 1, "STRUCT", columns.val)

\* TYPE_DECL ZeroOrMore(, TYPE_DECL), from the first one on
UnionTypes(t, p, tokens) ==
    LET type == Element("TYPE_DECL", t, p + 1, <<>>)
    IN  IF Tok(t, p) # "," THEN Match(p, tokens)
        ELSE IF type.fatal THEN type
        ELSE IF ~type.ok THEN Match(p, tokens)
        ELSE Element("UnionTypes", t, type.pos, tokens \o type.val.tokens)

\* UNION_TYPE: UNION - < Group(TYPE_DECL ZeroOrMore(, TYPE_DECL)) >
UNION_TYPE(t, p) ==
    IF Tok(t, p) # "UNION" THEN NoMatch
    ELSE IF Tok(t, p + 1) # "<" THEN SyntaxError
    ELSE LET first == Element("TYPE_DECL", t, p + 2, <<>>)
         IN  IF ~first.ok THEN SyntaxError
             ELSE LET types == Element("UnionTypes", t, first.pos, first.val.tokens)
                  IN  IF ~types.ok \/ Tok(t, types.pos) # ">" THEN SyntaxError
                      ELSE ComplexMatch(types.pos + 1, "UNION", types.val)

\* TYPE_DECL: PRIMITIVE_TYPE | ARRAY_DEF | MAP_DEF | UNION_DEF | STRUCT_DEF
TYPE_DECL(t, p) ==
    LET primitive == Element("PRIMITIVE_TYPE", t, p, <<>>)
    IN  IF primitive.ok THEN primitive
        ELSE CASE Tok(t, p) = "ARRAY" -> Element("ARRAY_TYPE", t, p, <<>>)
               [] Tok(t, p) = "MAP" -> Element("MAP_TYPE", t, p, <<>>)
               [] Tok(t, p) = "UNION" -> Element("UNION_TYPE", t, p, <<>>)
               [] Tok(t, p) = "STRUCT" -> Element("STRUCT_TYPE", t, p, <<>>)
               [] OTHER -> NoMatch

\* COLUMN_DEF: Group(COLUMN_NAME TYPE_DECL [COMMENT]); the results names of the group
\* and its tokens
COLUMN_DEF(t, p) ==
    LET name == Element("COLUMN_NAME", t, p, <<>>)
    IN  IF ~name.ok THEN NoMatch
        ELSE LET type == Element("TYPE_DECL", t, name.pos, <<>>)
                 comment == Element("COMMENT", t, type.pos, <<>>)
             IN  IF ~type.ok THEN type
                 ELSE IF comment.ok
                 THEN Match(comment.pos,
                            [column_name |-> name.val, column_type |-> type.val.column_type,
                             length |-> type.val.length, comment |-> Some(comment.val),
                             tokens |-> <<PyStr(name.val)>> \o type.val.tokens
                                        \o <<PyStr(comment.val)>>])
                 ELSE Match(type.pos,
                            [column_name |-> name.val, column_type |-> type.val.column_type,
                             length |-> type.val.length, comment |-> None,
                             tokens |-> <<PyStr(name.val)>> \o type.val.tokens])

\* ZeroOrMore(, COLUMN_DEF) after the first COLUMN_DEF
ColumnDefsFrom(t, p, defs) ==
    LET def == Element("COLUMN_DEF", t, p + 1, <<>>)
    IN  IF Tok(t, p) # "," THEN Match(p, defs)
        ELSE IF def.fatal THEN def
        ELSE IF ~def.ok THEN Match(p, defs)
        ELSE Element("ColumnDefsFrom", t, def.pos, Append(defs, def.val))

\* Group(COLUMN_DEF ZeroOrMore(, COLUMN_DEF))
ColumnDefsAt(t, p) ==
    LET first == Element("COLUMN_DEF", t, p, <<>>)
    IN  IF ~first.ok THEN first ELSE Element("ColumnDefsFrom", t, first.pos, <<first.val>>)

\* COLUMN_LIST: ( Group(COLUMN_DEF ZeroOrMore(, COLUMN_DEF))("column_list") )
COLUMN_LIST(t, p) ==
    IF Tok(t, p) # "(" THEN NoMatch
    ELSE LET defs == Element("ColumnDefsAt", t, p + 1, <<>>)
         IN  IF ~defs.ok THEN defs
             ELSE IF Tok(t, defs.pos) # ")" THEN NoMatch
             ELSE Match(defs.pos + 1,
                        [i \in DOMAIN defs.val |->
                            [column_name |-> defs.val[i].column_name,
                             column_type |-> defs.val[i].column_type,
                             length |-> defs.val[i].length,
                             comment |-> defs.val[i].comment]])

\* asList() of a group of tokens: its strings and, for a complex type, its lists
AsList(tokens) ==
    [i \in DOMAIN tokens |-> IF IsList(tokens[i]) THEN tokens[i] ELSE tokens[i].str]

\* PARTITION: Optional(PARTITIONED BY ( PARTITION_LIST ))("partition")
PARTITION(t, p) ==
    IF ~Literals(t, p, <<"PARTITIONED", "BY", "(">>) THEN Match(p, None)
    ELSE LET defs == Element("ColumnDefsAt", t, p + 3, <<>>)
         IN  IF defs.fatal THEN defs
             ELSE IF ~defs.ok \/ Tok(t, defs.pos) # ")" THEN Match(p, None)
             ELSE Match(defs.pos + 1,
                        Some(<<"PARTITIONED", "BY",
                               [i \in DOMAIN defs.val |-> AsList(defs.val[i].tokens)]>>))

\* TABLE_COMMENT: Optional(COMMENT QUOTED_STRING_WITH_QUOTE("table_comment"))
TABLE_COMMENT(t, p) ==
    IF Tok(t, p) = "COMMENT" /\ QUOTED_STRING_WITH_QUOTE(Tok(t, p + 1))
    THEN Match(p + 2, Some(Tok(t, p + 1)))
    ELSE Match(p, None)

\* CREATE_TABLE_STATEMENT: CREATE [EXTERNAL | TEMPORARY] TABLE [IF NOT EXISTS] TABLE_NAME
CREATE_TABLE_STATEMENT(t, p) ==
    LET modifier == IF Tok(t, p + 1) \in {"EXTERNAL", "TEMPORARY"}
                    THEN Some(Tok(t, p + 1)) ELSE None
        table == IF modifier = None THEN p + 1 ELSE p + 2
        name == IF Literals(t, table + 1, <<"IF", "NOT", "EXISTS">>)
                THEN Element("COLUMN_NAME", t, table + 4, <<>>) ELSE Element("COLUMN_NAME", t, table + 1, <<>>)
    IN  IF Tok(t, p) # "CREATE" \/ Tok(t, table) # "TABLE" \/ ~name.ok THEN NoMatch
        ELSE Match(name.pos, [table_name |-> name.val, table_modifier |-> modifier])

\* ZeroOrMore(, COLUMN_NAME) after the first COLUMN_NAME
ColumnNamesFrom(t, p, names) ==
    LET name == Element("COLUMN_NAME", t, p + 1, <<>>)
    IN  IF Tok(t, p) = "," /\ name.ok
        THEN Element("ColumnNamesFrom", t, name.pos, Append(names, name.val))
        ELSE Match(p, names)

\* ( COLUMN_NAME ZeroOrMore(, COLUMN_NAME) )
ColumnNames(t, p) ==
    LET first == Element("COLUMN_NAME", t, p + 1, <<>>)
        names == Element("ColumnNamesFrom", t, first.pos, <<first.val>>)
    IN  IF Tok(t, p) # "(" \/ ~first.ok THEN NoMatch
        ELSE IF Tok(t, names.pos) # ")" THEN NoMatch
        ELSE Match(names.pos + 1, names.val)

\* COLUMN_SORT_PAIR: Group(COLUMN_NAME [ASC | DESC])
COLUMN_SORT_PAIR(t, p) ==
    LET name == Element("COLUMN_NAME", t, p, <<>>)
    IN  IF ~name.ok THEN NoMatch
        ELSE IF Tok(t, name.pos) \in {"ASC", "DESC"}
        THEN Match(name.pos + 1, <<name.val, Tok(t, name.pos)>>)
        ELSE Match(name.pos, <<name.val>>)

\* ZeroOrMore(, COLUMN_SORT_PAIR) after the first COLUMN_SORT_PAIR
SortPairsFrom(t, p, pairs) ==
    LET pair == Element("COLUMN_SORT_PAIR", t, p + 1, <<>>)
    IN  IF Tok(t, p) = "," /\ pair.ok
        THEN Element("SortPairsFrom", t, pair.pos, Append(pairs, pair.val))
        ELSE Match(p, pairs)

\* SORTED_BY: Optional(Group(SORTED BY ( COLUMN_SORT_PAIR ZeroOrMore(, COLUMN_SORT_PAIR) )))
SORTED_BY(t, p) ==
    LET first == Element("COLUMN_SORT_PAIR", t, p + 3, <<>>)
        pairs == Element("SortPairsFrom", t, first.pos, <<first.val>>)
    IN  IF ~Literals(t, p, <<"SORTED", "BY", "(">>) \/ ~first.ok THEN Match(p, None)
        ELSE IF Tok(t, pairs.pos) # ")" THEN Match(p, None)
        ELSE Match(pairs.pos + 1, Some(pairs.val))

\* int(s) of a Word(nums), as the digits that IntOfDigits reads
Digits(s) == [i \in 1..Len(s) |-> CHOOSE d \in 0..9 : ToString(d) = SubSeq(s, i, i)]

\* A results name keeps what its last match set: names is the record of the names so
\* far, and a clause that matches answers the record with its own names set.

\* CLUSTERED_BY: CLUSTERED_BY_COLS SORTED_BY NUM_BUCKETS
CLUSTERED_BY(t, p, names) ==
    LET cols == Element("ColumnNames", t, p + 2, <<>>)
        sorted == Element("SORTED_BY", t, cols.pos, <<>>)
        into == sorted.pos
    IN  IF ~Literals(t, p, <<"CLUSTERED", "BY">>) \/ ~cols.ok THEN NoMatch
        ELSE IF ~(Tok(t, into) = "INTO" /\ Word(Tok(t, into + 1), nums)
                  /\ Tok(t, into + 2) = "BUCKETS")
        THEN NoMatch
        ELSE Match(into + 3,
                   [names EXCEPT !.clustered_by = Some(TRUE),
                                 !.clustered_by_cols = Some(cols.val),
                                 !.sorted_by = IF sorted.val = None THEN @ ELSE sorted.val,
                                 !.buckets = Some(Digits(Tok(t, into + 1)))])

\* ARBITRARY_VALUE: a number or a quoted string. A number is a Word(nums) here: the
\* statements hold no sign and no fraction; it is kept as str() writes its int
ARBITRARY_VALUE(t, p) ==
    IF Word(Tok(t, p), nums) THEN Match(p + 1, ToString(IntOfDigits(Digits(Tok(t, p)), 0)))
    ELSE IF QUOTED_STRING_WITH_QUOTE(Tok(t, p)) THEN Match(p + 1, Tok(t, p))
    ELSE NoMatch

\* ZeroOrMore(, ARBITRARY_VALUE) after the first ARBITRARY_VALUE
ArbitraryValuesFrom(t, p, values) ==
    LET value == Element("ARBITRARY_VALUE", t, p + 1, <<>>)
    IN  IF Tok(t, p) = "," /\ value.ok
        THEN Element("ArbitraryValuesFrom", t, value.pos, Append(values, value.val))
        ELSE Match(p, values)

\* SKEWED_BY_VALUES: Group(( SKEWED_BY_VALUES_LIST )); the statements do not use the
\* other form, of tuples of values
SKEWED_BY_VALUES(t, p) ==
    LET first == Element("ARBITRARY_VALUE", t, p + 1, <<>>)
        values == Element("ArbitraryValuesFrom", t, first.pos, <<first.val>>)
    IN  IF Tok(t, p) # "(" \/ ~first.ok THEN NoMatch
        ELSE IF Tok(t, values.pos) # ")" THEN NoMatch
        ELSE Match(values.pos + 1, values.val)

\* SKEWED_BY: SKEWED BY SKEWED_BY_COLUMNS ON SKEWED_BY_VALUES [STORED AS DIRECTORIES]
SKEWED_BY(t, p, names) ==
    LET cols == Element("ColumnNames", t, p + 2, <<>>)
        values == Element("SKEWED_BY_VALUES", t, cols.pos + 1, <<>>)
        directories == Literals(t, values.pos, <<"STORED", "AS", "DIRECTORIES">>)
    IN  IF ~Literals(t, p, <<"SKEWED", "BY">>) \/ ~cols.ok THEN NoMatch
        ELSE IF Tok(t, cols.pos) # "ON" \/ ~values.ok THEN NoMatch
        ELSE Match(IF directories THEN values.pos + 3 ELSE values.pos,
                   [names EXCEPT !.skewed_by = Some(TRUE),
                                 !.skewed_by_columns = Some(cols.val),
                                 !.skewed_by_values = Some(values.val),
                                 !.stored_as_directories =
                                     IF directories THEN "STOREDASDIRECTORIES" ELSE @])

\* KEY_VALUE_PAIR: Group(QUOTED_STRING_WITH_QUOTE = QUOTED_STRING_WITH_QUOTE)
KEY_VALUE_PAIR(t, p) ==
    IF /\ QUOTED_STRING_WITH_QUOTE(Tok(t, p))
       /\ Tok(t, p + 1) = "="
       /\ QUOTED_STRING_WITH_QUOTE(Tok(t, p + 2))
    THEN Match(p + 3, <<Tok(t, p), Tok(t, p + 2)>>)
    ELSE NoMatch

\* ZeroOrMore(, KEY_VALUE_PAIR) after the first KEY_VALUE_PAIR
KeyValuePairsFrom(t, p, pairs) ==
    LET pair == Element("KEY_VALUE_PAIR", t, p + 1, <<>>)
    IN  IF Tok(t, p) = "," /\ pair.ok
        THEN Element("KeyValuePairsFrom", t, pair.pos, Append(pairs, pair.val))
        ELSE Match(p, pairs)

\* ( KEY_VALUE_PAIR ZeroOrMore(, KEY_VALUE_PAIR) )
KeyValuePairs(t, p) ==
    LET first == Element("KEY_VALUE_PAIR", t, p + 1, <<>>)
        pairs == Element("KeyValuePairsFrom", t, first.pos, <<first.val>>)
    IN  IF Tok(t, p) # "(" \/ ~first.ok THEN NoMatch
        ELSE IF Tok(t, pairs.pos) # ")" THEN NoMatch
        ELSE Match(pairs.pos + 1, pairs.val)

\* SERDEPROPERTIES: Group(WITH SERDEPROPERTIES ( KEY_VALUE_PAIR ZeroOrMore(, ...) ))
SERDEPROPERTIES(t, p) ==
    IF Literals(t, p, <<"WITH", "SERDEPROPERTIES">>) THEN Element("KeyValuePairs", t, p + 2, <<>>)
    ELSE NoMatch

\* one of the delimiters of ROW_FORMAT_DELIMITED: its words and a quoted string
Terminated(t, p, words) ==
    IF Literals(t, p, words) /\ QUOTED_STRING_WITH_QUOTE(Tok(t, p + Len(words)))
    THEN Match(p + Len(words) + 1, Tok(t, p + Len(words)))
    ELSE NoMatch

\* ZeroOrMore(FIELDS_TERMINATED_BY | COLLECTION_ITEMS_TERMINATED_BY
\*            | MAP_KEYS_TERMINATED_BY | LINES_TERMINATED_BY | NULL_DEFINED_AS)
DelimitersFrom(t, p, names) ==
    LET fields == Terminated(t, p, <<"FIELDS", "TERMINATED", "BY">>)
        escaped == Terminated(t, fields.pos, <<"ESCAPED", "BY">>)
        items == Terminated(t, p, <<"COLLECTION", "ITEMS", "TERMINATED", "BY">>)
        keys == Terminated(t, p, <<"MAP", "KEYS", "TERMINATED", "BY">>)
        lines == Terminated(t, p, <<"LINES", "TERMINATED", "BY">>)
        null == Terminated(t, p, <<"NULL", "DEFINED", "AS">>)
        delimited == [names EXCEPT !.row_format_delimited = Some(TRUE)]
    IN  IF fields.ok
        THEN IF escaped.ok
             THEN Element("DelimitersFrom", t, escaped.pos,
                      [delimited EXCEPT !.fields_terminated_by = Some(fields.val),
                                        !.escaped_by = Some(escaped.val)])
             ELSE Element("DelimitersFrom", t, fields.pos,
                      [delimited EXCEPT !.fields_terminated_by = Some(fields.val)])
        ELSE IF items.ok
        THEN Element("DelimitersFrom", t, items.pos,
                 [delimited EXCEPT !.collection_items_terminated_by = Some(items.val)])
        ELSE IF keys.ok
        THEN Element("DelimitersFrom", t, keys.pos,
                 [delimited EXCEPT !.map_keys_terminated_by = Some(keys.val)])
        ELSE IF lines.ok
        THEN Element("DelimitersFrom", t, lines.pos,
                 [delimited EXCEPT !.lines_terminated_by = Some(lines.val)])
        ELSE IF null.ok
        THEN Element("DelimitersFrom", t, null.pos,
                 [delimited EXCEPT !.null_defined_as = Some(null.val)])
        ELSE Match(p, names)

\* ROW_FORMAT: ROW FORMAT (ROW_FORMAT_DELIMITED | ROW_FORMAT_SERDE). A name is set by
\* what is matched under it: DELIMITED without a delimiter sets neither
\* "row_format_delimited" nor "row_format"
ROW_FORMAT(t, p, names) ==
    LET delimited == Element("DelimitersFrom", t, p + 3, names)
        properties == Element("SERDEPROPERTIES", t, p + 4, <<>>)
    IN  IF ~Literals(t, p, <<"ROW", "FORMAT">>) THEN NoMatch
        ELSE IF Tok(t, p + 2) = "DELIMITED"
        THEN IF delimited.pos = p + 3 THEN delimited
             ELSE Match(delimited.pos, [delimited.val EXCEPT !.row_format = Some(TRUE)])
        ELSE IF Tok(t, p + 2) = "SERDE" /\ QUOTED_STRING_WITH_QUOTE(Tok(t, p + 3))
        THEN IF properties.ok
             THEN Match(properties.pos,
                        [names EXCEPT !.row_format = Some(TRUE),
                                      !.row_format_serde =
                                          Some(<<Tok(t, p + 3), properties.val>>)])
             ELSE Match(p + 4,
                        [names EXCEPT !.row_format = Some(TRUE),
                                      !.row_format_serde = Some(<<Tok(t, p + 3)>>)])
        ELSE NoMatch

FILE_FORMATS == {"SEQUENCEFILE", "TEXTFILE", "RCFILE", "ORC", "PARQUET", "AVRO", "JSONFILE"}

\* STORED_AS: STORED AS FILE_FORMAT
STORED_AS(t, p, names) ==
    IF ~Literals(t, p, <<"STORED", "AS">>) THEN NoMatch
    ELSE IF Tok(t, p + 2) \in FILE_FORMATS
    THEN Match(p + 3, [names EXCEPT !.storage = Some(TRUE), !.stored_as = Some(Tok(t, p + 2))])
    ELSE IF /\ Tok(t, p + 2) = "INPUTFORMAT"
            /\ QUOTED_STRING_WITH_QUOTE(Tok(t, p + 3))
            /\ Tok(t, p + 4) = "OUTPUTFORMAT"
            /\ QUOTED_STRING_WITH_QUOTE(Tok(t, p + 5))
    THEN Match(p + 6, [names EXCEPT !.storage = Some(TRUE),
                                    !.stored_as = Some(SubSeq(t, p + 2, p + 5))])
    ELSE NoMatch

\* STORED_BY: STORED BY QUOTED_STRING_WITH_QUOTE [SERDEPROPERTIES]
STORED_BY(t, p, names) ==
    LET properties == Element("SERDEPROPERTIES", t, p + 3, <<>>)
    IN  IF ~(Literals(t, p, <<"STORED", "BY">>) /\ QUOTED_STRING_WITH_QUOTE(Tok(t, p + 2)))
        THEN NoMatch
        ELSE IF properties.ok
        THEN Match(properties.pos,
                   [names EXCEPT !.storage = Some(TRUE),
                                 !.stored_by = Some(<<Tok(t, p + 2), properties.val>>)])
        ELSE Match(p + 3, [names EXCEPT !.storage = Some(TRUE),
                                        !.stored_by = Some(<<Tok(t, p + 2)>>)])

\* STORAGE: STORED_AS | STORED_BY
STORAGE(t, p, names) ==
    IF Element("STORED_AS", t, p, names).ok THEN Element("STORED_AS", t, p, names) ELSE Element("STORED_BY", t, p, names)

\* LOCATION: Combine(LOCATION QUOTED_STRING_WITH_QUOTE)
LOCATION(t, p, names) ==
    IF Tok(t, p) = "LOCATION" /\ QUOTED_STRING_WITH_QUOTE(Tok(t, p + 1))
    THEN Match(p + 2, [names EXCEPT !.location = Some(Tok(t, p + 1))])
    ELSE NoMatch

\* TBLPROPERTIES: TBLPROPERTIES ( KEY_VALUE_PAIR ZeroOrMore(, KEY_VALUE_PAIR) )
TBLPROPERTIES(t, p, names) ==
    LET pairs == Element("KeyValuePairs", t, p + 1, <<>>)
    IN  IF Tok(t, p) = "TBLPROPERTIES" /\ pairs.ok
        THEN Match(pairs.pos, [names EXCEPT !.properties = Some(pairs.val)])
        ELSE NoMatch

\* TABLE_SETTINGS: ZeroOrMore(CLUSTERED_BY | SKEWED_BY | ROW_FORMAT | STORAGE | LOCATION
\*                            | TBLPROPERTIES)
TABLE_SETTINGS(t, p, names) ==
    LET setting ==
            IF Element("CLUSTERED_BY", t, p, names).ok THEN Element("CLUSTERED_BY", t, p, names)
            ELSE IF Element("SKEWED_BY", t, p, names).ok THEN Element("SKEWED_BY", t, p, names)
            ELSE IF Element("ROW_FORMAT", t, p, names).ok THEN Element("ROW_FORMAT", t, p, names)
            ELSE IF Element("STORAGE", t, p, names).ok THEN Element("STORAGE", t, p, names)
            ELSE IF Element("LOCATION", t, p, names).ok THEN Element("LOCATION", t, p, names)
            ELSE Element("TBLPROPERTIES", t, p, names)
    IN  IF setting.ok THEN Element("TABLE_SETTINGS", t, setting.pos, setting.val) ELSE Match(p, names)

\* the results names of the table settings, none of them set
NoSettings ==
    [location |-> None, clustered_by |-> None, clustered_by_cols |-> None,
     sorted_by |-> None, buckets |-> None, skewed_by |-> None, skewed_by_columns |-> None,
     skewed_by_values |-> None, stored_as_directories |-> "", row_format |-> None,
     row_format_delimited |-> None, fields_terminated_by |-> None, escaped_by |-> None,
     collection_items_terminated_by |-> None, map_keys_terminated_by |-> None,
     lines_terminated_by |-> None, null_defined_as |-> None, row_format_serde |-> None,
     storage |-> None, stored_as |-> None, stored_by |-> None, properties |-> None]

\* the parse results of a statement, as ModelFactory reads them
ResultsOf(create, columns, comment, partition, names) ==
    ParseResults(create.table_name, create.table_modifier, comment, partition, columns,
        names.location,
        IF names.clustered_by = None THEN None
        ELSE Some([clustered_by_cols |-> names.clustered_by_cols[1],
                   sorted_by |-> names.sorted_by, buckets |-> names.buckets[1]]),
        IF names.skewed_by = None THEN None
        ELSE Some([skewed_by_columns |-> names.skewed_by_columns[1],
                   skewed_by_values |-> names.skewed_by_values[1],
                   stored_as_directories |-> names.stored_as_directories]),
        IF names.row_format = None THEN None
        ELSE Some([row_format_delimited |->
                       IF names.row_format_delimited = None THEN None
                       ELSE Some([fields_terminated_by |-> names.fields_terminated_by,
                                  escaped_by |-> names.escaped_by,
                                  collection_items_terminated_by |->
                                      names.collection_items_terminated_by,
                                  map_keys_terminated_by |-> names.map_keys_terminated_by,
                                  lines_terminated_by |-> names.lines_terminated_by,
                                  null_defined_as |-> names.null_defined_as]),
                   row_format_serde |-> names.row_format_serde]),
        IF names.storage = None THEN None
        ELSE Some([stored_as |-> names.stored_as, stored_by |-> names.stored_by]),
        names.properties)

\* HQLParser.get_create_table_parser: CREATE_TABLE_STATEMENT COLUMN_LIST TABLE_COMMENT
\* PARTITION TABLE_SETTINGS SEMICOLON, the semicolon optional
get_create_table_parser(t, p) ==
    LET create == Element("CREATE_TABLE_STATEMENT", t, p, <<>>)
        columns == Element("COLUMN_LIST", t, create.pos, <<>>)
        comment == Element("TABLE_COMMENT", t, columns.pos, <<>>)
        partition == Element("PARTITION", t, comment.pos, <<>>)
        settings == Element("TABLE_SETTINGS", t, partition.pos, NoSettings)
        end == IF Tok(t, settings.pos) = ";" THEN settings.pos + 1 ELSE settings.pos
    IN  IF ~create.ok THEN NoMatch
        ELSE IF columns.fatal THEN SyntaxError
        ELSE IF ~columns.ok THEN NoMatch
        ELSE IF partition.fatal THEN SyntaxError
        ELSE Match(end, ResultsOf(create.val, columns.val, comment.val, partition.val,
                                  settings.val))

Element(expr, t, p, so_far) ==
    CASE expr = "COLUMN_NAME" -> COLUMN_NAME(t, p)
      [] expr = "COL_LEN" -> COL_LEN(t, p)
      [] expr = "DECIMAL_LEN" -> DECIMAL_LEN(t, p)
      [] expr = "DECIMAL_DEF" -> DECIMAL_DEF(t, p)
      [] expr = "CHAR_DEF" -> CHAR_DEF(t, p)
      [] expr = "PRIMITIVE_TYPE" -> PRIMITIVE_TYPE(t, p)
      [] expr = "COMMENT" -> COMMENT(t, p)
      [] expr = "ARRAY_TYPE" -> ARRAY_TYPE(t, p)
      [] expr = "MAP_TYPE" -> MAP_TYPE(t, p)
      [] expr = "STRUCT_COLUMN_DEF" -> STRUCT_COLUMN_DEF(t, p)
      [] expr = "STRUCT_TYPE" -> STRUCT_TYPE(t, p)
      [] expr = "UNION_TYPE" -> UNION_TYPE(t, p)
      [] expr = "TYPE_DECL" -> TYPE_DECL(t, p)
      [] expr = "COLUMN_DEF" -> COLUMN_DEF(t, p)
      [] expr = "ColumnDefsAt" -> ColumnDefsAt(t, p)
      [] expr = "COLUMN_LIST" -> COLUMN_LIST(t, p)
      [] expr = "PARTITION" -> PARTITION(t, p)
      [] expr = "TABLE_COMMENT" -> TABLE_COMMENT(t, p)
      [] expr = "CREATE_TABLE_STATEMENT" -> CREATE_TABLE_STATEMENT(t, p)
      [] expr = "ColumnNames" -> ColumnNames(t, p)
      [] expr = "COLUMN_SORT_PAIR" -> COLUMN_SORT_PAIR(t, p)
      [] expr = "SORTED_BY" -> SORTED_BY(t, p)
      [] expr = "ARBITRARY_VALUE" -> ARBITRARY_VALUE(t, p)
      [] expr = "SKEWED_BY_VALUES" -> SKEWED_BY_VALUES(t, p)
      [] expr = "KEY_VALUE_PAIR" -> KEY_VALUE_PAIR(t, p)
      [] expr = "KeyValuePairs" -> KeyValuePairs(t, p)
      [] expr = "SERDEPROPERTIES" -> SERDEPROPERTIES(t, p)
      [] expr = "StructColumns" -> StructColumns(t, p, so_far)
      [] expr = "UnionTypes" -> UnionTypes(t, p, so_far)
      [] expr = "ColumnDefsFrom" -> ColumnDefsFrom(t, p, so_far)
      [] expr = "ColumnNamesFrom" -> ColumnNamesFrom(t, p, so_far)
      [] expr = "SortPairsFrom" -> SortPairsFrom(t, p, so_far)
      [] expr = "CLUSTERED_BY" -> CLUSTERED_BY(t, p, so_far)
      [] expr = "ArbitraryValuesFrom" -> ArbitraryValuesFrom(t, p, so_far)
      [] expr = "SKEWED_BY" -> SKEWED_BY(t, p, so_far)
      [] expr = "KeyValuePairsFrom" -> KeyValuePairsFrom(t, p, so_far)
      [] expr = "DelimitersFrom" -> DelimitersFrom(t, p, so_far)
      [] expr = "ROW_FORMAT" -> ROW_FORMAT(t, p, so_far)
      [] expr = "STORED_AS" -> STORED_AS(t, p, so_far)
      [] expr = "STORED_BY" -> STORED_BY(t, p, so_far)
      [] expr = "STORAGE" -> STORAGE(t, p, so_far)
      [] expr = "LOCATION" -> LOCATION(t, p, so_far)
      [] expr = "TBLPROPERTIES" -> TBLPROPERTIES(t, p, so_far)
      [] expr = "TABLE_SETTINGS" -> TABLE_SETTINGS(t, p, so_far)
      [] expr = "get_create_table_parser" -> get_create_table_parser(t, p)

\* HQLParser.parse with parse_all=False: the statement, and whatever follows it
parse_NotAll(hql) ==
    LET parsed == Element("get_create_table_parser", Lex(hql), 1, <<>>)
    IN  IF parsed.fatal THEN Raise("ParseSyntaxException")
        ELSE IF ~parsed.ok THEN Raise("ParseException")
        ELSE Ok(parsed.val)

\* HQLParser.parse: parseString(hql, parseAll=True) of get_create_table_parser, the
\* statement and then the end of the text
parse(hql) ==
    LET parsed == Element("get_create_table_parser", Lex(hql), 1, <<>>)
    IN  IF parsed.fatal THEN Raise("ParseSyntaxException")
        ELSE IF ~parsed.ok THEN Raise("ParseException")
        ELSE IF parsed.pos # Len(Lex(hql)) + 1 THEN Raise("ParseException")
        ELSE Ok(parsed.val)

\* Beeswax.get_table(hql): HQLParser().parse_create_table(hql)
BeeswaxGetTable(hql) == OnOk(parse(hql), parse_create_table)

(***************************************************************************)
(* src/diff/table_diff.py                                                  *)
(***************************************************************************)

attributes ==
    <<"name", "comment", "modifier", "partition", "location", "clustered_by",
      "row_format", "skewed_by", "storage", "table_properties">>

\* the attributes whose values are objects of the classes of src/model
EntityAttributes ==
    {"location", "clustered_by", "row_format", "skewed_by", "storage", "table_properties"}

\* self.__ne__(other) of the class of that attribute
EntityNe(attr, self, other) ==
    CASE attr = "location" -> LocationNe(self, other)
      [] attr = "clustered_by" -> ClusteredByNe(self, other)
      [] attr = "row_format" -> RowFormatNe(self, other)
      [] attr = "skewed_by" -> SkewedByNe(self, other)
      [] attr = "storage" -> StorageNe(self, other)
      [] attr = "table_properties" -> TablePropertiesNe(self, other)

\* getattr(old, attr) != getattr(new, attr).  str, list and None compare by value.  With
\* an object on the left Python calls its __ne__; with None on the left and an object on
\* the right, None's __ne__ answers NotImplemented and Python calls the reflected
\* __ne__ of the object on the right.
NotEquals(attr, a, b) ==
    IF attr \notin EntityAttributes THEN Ok(a # b)
    ELSE IF a # None THEN EntityNe(attr, a[1], b)
    ELSE IF b # None THEN EntityNe(attr, b[1], a)
    ELSE Ok(FALSE)

\* bool(getattr(new, attr)): a str or list is true when not empty, None is false, an
\* object of src/model (no __bool__, no __len__) is true
Truthy(attr, v) ==
    CASE attr = "name" -> v # ""
      [] attr \in {"modifier", "comment"} -> v # None /\ v[1] # ""
      [] attr = "partition" -> v # None /\ v[1] # <<>>
      [] OTHER -> v # None

\* the object getattr(table, attr) is, once it is known not to be None
AttrValue(attr, v) == IF attr = "name" THEN v ELSE v[1]

DictHas(d, key) == \E i \in DOMAIN d : d[i].key = key

\* d.get(key), for a key d has
DictGet(d, key) == d[CHOOSE i \in DOMAIN d : d[i].key = key].value

Keys(d) == [i \in DOMAIN d |-> d[i].key]

\* d[key] = value: a new key goes last, an old key keeps its place
DictSet(d, key, value) ==
    IF DictHas(d, key)
    THEN [i \in DOMAIN d |-> IF d[i].key = key THEN [key |-> key, value |-> value] ELSE d[i]]
    ELSE Append(d, [key |-> key, value |-> value])

\* d[key].append(item) on a defaultdict(list): a missing key is created, last
DefaultDictAppend(d, key, item) ==
    IF DictHas(d, key) THEN DictSet(d, key, Append(DictGet(d, key), item))
    ELSE DictSet(d, key, <<item>>)

RECURSIVE DiffColumnsLoop(_, _, _, _)
\* the loop of diff_columns over new.keys(), from the idx-th key on
DiffColumnsLoop(old_columns, new_columns, idx, d) ==
    IF idx > Len(new_columns) THEN d
    ELSE LET name == new_columns[idx].name
             old_column == ColumnsGet(old_columns, name)
             \* old.get(name) != new.get(name): Column.__ne__ of the old column, or, when
             \* old.get(name) is None, the reflected Column.__ne__ of the new one
             ne == IF old_column # None
                   THEN ColumnNe(old_column[1], ColumnsGet(new_columns, name))
                   ELSE ColumnNe(new_columns[idx], None)
         IN  IF ne.val
             THEN IF old_column = None
                  THEN DiffColumnsLoop(old_columns, new_columns, idx + 1,
                                       DefaultDictAppend(d, "added", new_columns[idx]))
                  ELSE DiffColumnsLoop(old_columns, new_columns, idx + 1,
                                       DefaultDictAppend(d, "changed", new_columns[idx]))
             ELSE DiffColumnsLoop(old_columns, new_columns, idx + 1, d)

\* TableDiff.diff_columns
diff_columns(old_columns, new_columns) ==
    IF Cardinality(ColumnsKeys(old_columns) \ ColumnsKeys(new_columns)) > 0
    THEN Raise("UnsafeOperationException")
    ELSE Ok(DiffColumnsLoop(old_columns, new_columns, 1, <<>>))

RECURSIVE DiffAttributes_OldValue(_, _, _, _)
\* the loop over attributes with diff[attr] = getattr(old, attr) or getattr(new, attr)
DiffAttributes_OldValue(o, n, i, d) ==
    IF i > Len(attributes) THEN Ok(d)
    ELSE LET attr == attributes[i]
             ne == NotEquals(attr, o[attr], n[attr])
         IN  IF ne.err # "" THEN Raise(ne.err)
             ELSE IF ne.val /\ Truthy(attr, n[attr])
             THEN DiffAttributes_OldValue(o, n, i + 1,
                      DictSet(d, attr, IF Truthy(attr, o[attr])
                                       THEN AttrValue(attr, o[attr])
                                       ELSE AttrValue(attr, n[attr])))
             ELSE DiffAttributes_OldValue(o, n, i + 1, d)

RECURSIVE DiffAttributes(_, _, _, _)
\* the loop over attributes, from the i-th on, with the dict built so far
DiffAttributes(o, n, i, d) ==
    IF i > Len(attributes) THEN Ok(d)
    ELSE LET attr == attributes[i]
             ne == NotEquals(attr, o[attr], n[attr])
         IN  IF ne.err # "" THEN Raise(ne.err)
             ELSE IF ne.val /\ Truthy(attr, n[attr])
             THEN DiffAttributes(o, n, i + 1, DictSet(d, attr, AttrValue(attr, n[attr])))
             ELSE DiffAttributes(o, n, i + 1, d)

\* TableDiff.diff
TableDiff(o, n) ==
    LET d == DiffAttributes(o, n, 1, <<>>)
    IN  IF d.err # "" THEN d
        ELSE IF o.columns # n.columns
        THEN LET c == diff_columns(o.columns, n.columns)
             IN  IF c.err # "" THEN c ELSE Ok(DictSet(d.val, "columns", c.val))
        ELSE d

(***************************************************************************)
(* src/hql/hql_statement.py                                                *)
(***************************************************************************)

\* the head of a statement with the name of the table as it is, not back-quoted
AlterTable_Unquoted(table) == <<"ALTER TABLE ", "", table.name, "">>

AlterTable(table) == <<"ALTER TABLE ", BACK_QUOTE, table.name, BACK_QUOTE>>

add_columns(table, columns) ==
    OnOk(AllOk([i \in DOMAIN columns |-> ColumnHql(columns[i])]),
         LAMBDA column_list : Ok(AlterTable(table) \o <<" ADD COLUMNS (">>
                                 \o Join(", ", column_list) \o <<")", ";">>))

change_column(table, column) ==
    OnOk(ColumnHql(column),
         LAMBDA hql : Ok(AlterTable(table)
                         \o <<" CHANGE COLUMN ", BACK_QUOTE, column.name, BACK_QUOTE, " ">>
                         \o hql \o <<";">>))

set_clustered_by(table, clustered_by) ==
    AlterTable(table) \o <<" SET ">> \o ClusteredByHql(clustered_by) \o <<";">>

\* set_modifier without the test: 'FALSE' whatever the modifier
set_modifier_AlwaysFalse(table, modifier) ==
    LET properties == TableProperties(<< <<"'EXTERNAL'", "'FALSE'">> >>)
    IN  AlterTable(table) \o <<" SET ">> \o TablePropertiesHql(properties) \o <<";">>

\* set_modifier with the test the other way round
set_modifier_Inverted(table, modifier) ==
    LET external == IF modifier = "EXTERNAL" THEN "'FALSE'" ELSE "'TRUE'"
        properties == TableProperties(<< <<"'EXTERNAL'", external>> >>)
    IN  AlterTable(table) \o <<" SET ">> \o TablePropertiesHql(properties) \o <<";">>

set_modifier(table, modifier) ==
    LET external == IF modifier = "EXTERNAL" THEN "'TRUE'" ELSE "'FALSE'"
        properties == TableProperties(<< <<"'EXTERNAL'", external>> >>)
    IN  AlterTable(table) \o <<" SET ">> \o TablePropertiesHql(properties) \o <<";">>

set_location(table, location) ==
    AlterTable(table) \o <<" SET ">> \o LocationHql(location) \o <<";">>

set_row_format(table, row_format) ==
    AlterTable(table) \o <<" SET ">> \o RowFormatHql(row_format) \o <<";">>

set_skewed_by(table, skewed_by) ==
    AlterTable(table) \o <<" SET ">> \o SkewedByHql(skewed_by) \o <<";">>

set_storage(table, storage) ==
    AlterTable(table) \o <<" SET ">> \o StorageHql(storage) \o <<";">>

set_table_properties(table, table_properties) ==
    AlterTable(table) \o <<" SET ">> \o TablePropertiesHql(table_properties) \o <<";">>

\* the "columns" step of from_diff: columns.get("changed") is None when nothing was
\* appended under "changed", and a for loop over None raises TypeError
ColumnStatements(table, d) ==
    IF ~DictHas(d, "columns") THEN Ok(<<>>)
    ELSE LET columns == DictGet(d, "columns")
         IN  OnOk(IF DictHas(columns, "added")
                  THEN AllOk(<<add_columns(table, DictGet(columns, "added"))>>)
                  ELSE Ok(<<>>),
                  LAMBDA added :
                      IF ~DictHas(columns, "changed") THEN Raise("TypeError")
                      ELSE OnOk(AllOk([i \in DOMAIN DictGet(columns, "changed") |->
                                          change_column(table,
                                                        DictGet(columns, "changed")[i])]),
                                LAMBDA changed : Ok(added \o changed)))

\* one "if key in diff: statements.append(...)" step of from_diff
SetStatement(table, d, key) ==
    IF ~DictHas(d, key) THEN <<>>
    ELSE LET v == DictGet(d, key)
         IN  CASE key = "clustered_by" -> <<set_clustered_by(table, v)>>
               [] key = "location" -> <<set_location(table, v)>>
               [] key = "modifier" -> <<set_modifier(table, v)>>
               [] key = "row_format" -> <<set_row_format(table, v)>>
               [] key = "skewed_by" -> <<set_skewed_by(table, v)>>
               [] key = "storage" -> <<set_storage(table, v)>>
               [] key = "table_properties" -> <<set_table_properties(table, v)>>

RECURSIVE SetStatementsOf(_, _, _)
SetStatementsOf(table, d, i) ==
    IF i > Len(d) THEN <<>>
    ELSE (IF d[i].key \in {"clustered_by", "location", "modifier", "row_format",
                            "skewed_by", "storage", "table_properties"}
          THEN SetStatement(table, d, d[i].key) ELSE <<>>)
         \o SetStatementsOf(table, d, i + 1)

\* from_diff walking the diff record: one statement per key, in the order of the keys
from_diff_InsertionOrder(table, d) ==
    IF DictHas(d, "partition") THEN Raise("UnsafeOperationException")
    ELSE OnOk(ColumnStatements(table, d),
              LAMBDA columns : Ok(columns \o SetStatementsOf(table, d, 1)))

\* HQLStatement.from_diff
from_diff(table, d) ==
    IF DictHas(d, "partition") THEN Raise("UnsafeOperationException")
    ELSE OnOk(ColumnStatements(table, d),
              LAMBDA columns : Ok(columns
                                  \o SetStatement(table, d, "clustered_by")
                                  \o SetStatement(table, d, "location")
                                  \o SetStatement(table, d, "modifier")
                                  \o SetStatement(table, d, "row_format")
                                  \o SetStatement(table, d, "skewed_by")
                                  \o SetStatement(table, d, "storage")
                                  \o SetStatement(table, d, "table_properties")))

(***************************************************************************)
(* The statements given to the tool.  Each run compares two CREATE TABLE   *)
(* statements; the model draws their parse results from the sets below.    *)
(***************************************************************************)

\* the most ways in which the two statements of one run go beyond
\* CREATE TABLE t (<columns>): a clause that one or both of them use (modifier, comment,
\* partition, the six table settings), or another table name in the new statement
MaxClauses == 2

\* the most columns in one column list
MaxColumns == 3

ColumnDef(name, type) ==
    [column_name |-> name, column_type |-> PyStr(type), length |-> None, comment |-> None]

ColumnDefs ==
    {ColumnDef("a", "INT"), ColumnDef("a", "STRING"), ColumnDef("b", "INT"),
     ColumnDef("c", "INT")}

\* the column lists of at most MaxColumns columns, no name twice
ColumnLists ==
    UNION {{l \in [1..k -> ColumnDefs] :
               \A i, j \in 1..k : i # j => l[i].column_name # l[j].column_name}
           : k \in 1..MaxColumns}

\* the old statement declares a INT, or a INT and b INT
OldColumns == <<ColumnDef("a", "INT"), ColumnDef("b", "INT")>>

OldColumnLists == {SubSeq(OldColumns, 1, k) : k \in 1..Len(OldColumns)}

Clauses ==
    {"table_name", "table_modifier", "table_comment", "partition", "location",
     "clustered_by", "skewed_by", "row_format", "storage", "properties"}

KeyValues(value) == << <<"'k'", value>> >>

PartitionOf(name) == <<"PARTITIONED", "BY", << <<name, "STRING">> >> >>

ClusteredByOf(buckets) ==
    [clustered_by_cols |-> <<"a">>, sorted_by |-> None, buckets |-> buckets]

SkewedByOf(values) ==
    [skewed_by_columns |-> <<"a">>, skewed_by_values |-> values, stored_as_directories |-> ""]

Delimited(fields_terminated_by) ==
    [row_format_delimited |->
         Some([fields_terminated_by |-> Some(fields_terminated_by), escaped_by |-> None,
               collection_items_terminated_by |-> None, map_keys_terminated_by |-> None,
               lines_terminated_by |-> None, null_defined_as |-> None]),
     row_format_serde |-> None]

Serde(class) == [row_format_delimited |-> None, row_format_serde |-> Some(<<class>>)]

StoredBy(tokens) == [stored_as |-> None, stored_by |-> Some(tokens)]

StoredAs(format) == [stored_as |-> Some(format), stored_by |-> None]

\* the forms of each clause that the statements use: a first and a second value
ClauseValues(clause) ==
    CASE clause = "table_name" -> <<"t", "u">>
      [] clause = "table_modifier" -> <<"EXTERNAL", "TEMPORARY">>
      [] clause = "table_comment" -> <<"'c'", "'d'">>
      [] clause = "partition" -> <<PartitionOf("ds"), PartitionOf("dt")>>
      [] clause = "location" -> <<"'/x'", "'/y'">>
      [] clause = "clustered_by" -> <<ClusteredByOf(<<4>>), ClusteredByOf(<<0, 8>>)>>
      [] clause = "skewed_by" -> <<SkewedByOf(<<"1", "2">>), SkewedByOf(<<"1", "3">>)>>
      [] clause = "row_format" -> <<Serde("'x'"), Delimited("','")>>
      [] clause = "storage" -> <<StoredBy(<<"'x'", KeyValues("'v'")>>),
                                 StoredBy(<<"'y'", KeyValues("'v'")>>),
                                 StoredAs("ORC")>>
      [] clause = "properties" -> <<KeyValues("'v'"), KeyValues("'w'")>>

\* how the old and the new statement use a clause: <<i, j>> is the i-th value in the old
\* statement and the j-th in the new one, 0 for a statement without the clause
ClauseCases(clause) ==
    CASE clause = "table_name" -> {<<1, 2>>}
      [] clause = "table_comment" -> {<<0, 1>>, <<1, 2>>}
      [] clause = "storage" -> {<<1, 1>>, <<1, 2>>, <<0, 1>>, <<1, 0>>, <<3, 1>>, <<1, 3>>}
      [] OTHER -> {<<1, 1>>, <<1, 2>>, <<0, 1>>, <<1, 0>>}

\* a clause that neither statement was chosen to vary: absent, the table name "t"
Unused(clause) == IF clause = "table_name" THEN <<1, 1>> ELSE <<0, 0>>

AllCases == UNION {ClauseCases(c) : c \in Clauses}

ClauseOf(clause, i) == IF i = 0 THEN None ELSE Some(ClauseValues(clause)[i])

Statement(column_list, clause) ==
    ParseResults(clause["table_name"][1], clause["table_modifier"], clause["table_comment"],
                 clause["partition"], column_list, clause["location"],
                 clause["clustered_by"], clause["skewed_by"], clause["row_format"],
                 clause["storage"], clause["properties"])

(***************************************************************************)
(* cli.py and src/beeswax.py: one run of the tool                          *)
(***************************************************************************)

Init ==
    /\ pc = "start"
    /\ \E used \in {u \in SUBSET Clauses : Cardinality(u) <= MaxClauses} :
       \E case \in {c \in [used -> AllCases] : \A k \in used : c[k] \in ClauseCases(k)} :
       \E old_columns \in OldColumnLists, new_columns \in ColumnLists :
           LET Case(k) == IF k \in used THEN case[k] ELSE Unused(k)
           IN  /\ old_hql = Statement(old_columns, [k \in Clauses |-> ClauseOf(k, Case(k)[1])])
               /\ new_hql = Statement(new_columns, [k \in Clauses |-> ClauseOf(k, Case(k)[2])])
    /\ old = None
    /\ new = None
    /\ diff = None
    /\ statements = None
    /\ printed = <<>>
    /\ error = ""

\* cli.beeswax: the two Beeswax.get_table calls, the old statement first
GetTables ==
    /\ pc = "start"
    /\ LET o == parse_create_table(old_hql)
           n == parse_create_table(new_hql)
       IN  IF o.err # ""
           THEN /\ pc' = "failed"
                /\ error' = o.err
                /\ UNCHANGED <<old, new>>
           ELSE IF n.err # ""
           THEN /\ pc' = "failed"
                /\ error' = n.err
                /\ old' = Some(o.val)
                /\ UNCHANGED new
           ELSE /\ pc' = "parsed"
                /\ old' = Some(o.val)
                /\ new' = Some(n.val)
                /\ UNCHANGED error
    /\ UNCHANGED <<old_hql, new_hql, diff, statements, printed>>

\* a diff that takes the columns it reports as added out of the new table
Diff_TakingAdded ==
    /\ pc = "parsed"
    /\ LET d == TableDiff(old[1], new[1])
           kept == SelectSeq(new[1].columns,
                             LAMBDA c : c.name \in ColumnsKeys(old[1].columns))
       IN  IF d.err # ""
           THEN /\ pc' = "failed"
                /\ error' = d.err
                /\ UNCHANGED <<diff, new>>
           ELSE /\ pc' = "diffed"
                /\ diff' = Some(d.val)
                /\ new' = Some([new[1] EXCEPT !.columns = kept])
                /\ UNCHANGED error
    /\ UNCHANGED <<old_hql, new_hql, old, statements, printed>>

\* Beeswax.get_hql_diff: TableDiff.diff(old, new)
Diff ==
    /\ pc = "parsed"
    /\ LET d == TableDiff(old[1], new[1])
       IN  IF d.err # ""
           THEN /\ pc' = "failed"
                /\ error' = d.err
                /\ UNCHANGED diff
           ELSE /\ pc' = "diffed"
                /\ diff' = Some(d.val)
                /\ UNCHANGED error
    /\ UNCHANGED <<old_hql, new_hql, old, new, statements, printed>>

\* a generation that hands over the SET statements it could build when it fails
Generate_KeepingPartial ==
    /\ pc = "diffed"
    /\ LET g == from_diff(new[1], diff[1])
       IN  IF g.err # ""
           THEN /\ pc' = "failed"
                /\ error' = g.err
                /\ statements' = Some(SetStatementsOf(new[1], diff[1], 1))
           ELSE /\ pc' = "returned"
                /\ statements' = Some(g.val)
                /\ UNCHANGED error
    /\ UNCHANGED <<old_hql, new_hql, old, new, diff, printed>>

\* a generation that builds the statements for the old table
Generate_ForOld ==
    /\ pc = "diffed"
    /\ LET g == from_diff(old[1], diff[1])
       IN  IF g.err # ""
           THEN /\ pc' = "failed"
                /\ error' = g.err
                /\ UNCHANGED statements
           ELSE /\ pc' = "returned"
                /\ statements' = Some(g.val)
                /\ UNCHANGED error
    /\ UNCHANGED <<old_hql, new_hql, old, new, diff, printed>>

\* Beeswax.get_hql_diff: HQLStatement.from_diff(new, diff)
Generate ==
    /\ pc = "diffed"
    /\ LET g == from_diff(new[1], diff[1])
       IN  IF g.err # ""
           THEN /\ pc' = "failed"
                /\ error' = g.err
                /\ UNCHANGED statements
           ELSE /\ pc' = "returned"
                /\ statements' = Some(g.val)
                /\ UNCHANGED error
    /\ UNCHANGED <<old_hql, new_hql, old, new, diff, printed>>

\* cli.beeswax: for statement in diff: print(statement)
WriteStatements ==
    /\ pc = "returned"
    /\ IF Len(printed) < Len(statements[1])
       THEN /\ printed' = Append(printed, Str(statements[1][Len(printed) + 1]))
            /\ UNCHANGED pc
       ELSE /\ pc' = "done"
            /\ UNCHANGED printed
    /\ UNCHANGED <<old_hql, new_hql, old, new, diff, statements, error>>

Next == GetTables \/ Diff \/ Generate \/ WriteStatements

Spec == Init /\ [][Next]_vars

(***************************************************************************)
(* Properties                                                              *)
(***************************************************************************)

O == old[1]

N == new[1]

\* Beeswax.get_hql_diff(old, new) was called and returned
Returns == pc \in {"returned", "done"}

\* Beeswax.get_hql_diff(old, new) was called and raised
RaisesAny == pc = "failed" /\ new # None

Raises(e) == RaisesAny /\ error = e

Finished == Returns \/ RaisesAny

AllAttributes == {attributes[i] : i \in DOMAIN attributes}

SameAttributes(attrs) == \A attr \in attrs : O[attr] = N[attr]

\* what a statement is, read off its text
StatementKind(stmt) ==
    CASE stmt[5] = " ADD COLUMNS (" -> "ADD COLUMNS"
      [] stmt[5] = " CHANGE COLUMN " -> "CHANGE COLUMN"
      [] stmt[5] = " SET " /\ stmt[6] = "CLUSTERED BY " -> "SET CLUSTERED BY"
      [] stmt[5] = " SET " /\ stmt[6] = "LOCATION " -> "SET LOCATION"
      [] stmt[5] = " SET " /\ stmt[6] = "TBLPROPERTIES(" /\ stmt[7] = "'EXTERNAL'" ->
             "SET TBLPROPERTIES EXTERNAL"
      [] stmt[5] = " SET " /\ stmt[6] = "TBLPROPERTIES(" /\ stmt[7] # "'EXTERNAL'" ->
             "SET TBLPROPERTIES"
      [] stmt[5] = " SET " /\ stmt[6] = "ROW FORMAT " -> "SET ROW FORMAT"
      [] stmt[5] = " SET " /\ stmt[6] = "SKEWED BY (" -> "SET SKEWED BY"
      [] stmt[5] = " SET " /\ stmt[6] = "STORED " -> "SET STORED"
      [] OTHER -> "?"

StatementKinds == [i \in DOMAIN statements[1] |-> StatementKind(statements[1][i])]

\* ---------------------------------------------------------------------------
\* C1: get_hql_diff on two Tables of the parser either returns the statements or
\* raises UnsafeOperationException, never another error.
C1_OnlyUnsafeOperationException == RaisesAny => error = "UnsafeOperationException"

\* ---------------------------------------------------------------------------
\* new's columns are old's columns, unchanged, followed by columns old has not
ColumnsOnlyAdded ==
    /\ Len(N.columns) > Len(O.columns)
    /\ SubSeq(N.columns, 1, Len(O.columns)) = O.columns

AddedColumns == SelectSeq(N.columns, LAMBDA c : c.name \notin ColumnsKeys(O.columns))

\* C2: when new is old plus one or more columns and nothing else differs, get_hql_diff
\* returns exactly one statement, the ADD COLUMNS statement of the added columns in the
\* order new declares them.
C2_AddColumnsOnly ==
    (Finished /\ ColumnsOnlyAdded /\ SameAttributes(AllAttributes))
        => /\ Returns
           /\ statements[1] = <<add_columns(N, AddedColumns).val>>

\* ---------------------------------------------------------------------------
\* C3: when old has a column name that new has not, diff followed by from_diff raises
\* UnsafeOperationException and produces no statement, whatever else the tables hold.
C3_RemovedColumnIsUnsafe ==
    (Finished /\ ColumnsKeys(O.columns) \ ColumnsKeys(N.columns) # {})
        => /\ Raises("UnsafeOperationException")
           /\ statements = None
           /\ printed = <<>>

\* ---------------------------------------------------------------------------
\* C4: when old.partition != new.partition (a partition list added, changed or removed),
\* get_hql_diff raises UnsafeOperationException.
C4_PartitionChangeIsUnsafe ==
    (Finished /\ O.partition # N.partition) => Raises("UnsafeOperationException")

\* ---------------------------------------------------------------------------
\* C5: from_diff(t, diff(t, t)) is the empty list for every Table t, and get_hql_diff of
\* two Tables built from the same statement (two equal Tables) returns the empty list.
C5_Idempotent ==
    /\ (Finished /\ old = new) => (Returns /\ statements[1] = <<>>)
    /\ \A t \in {old, new} \ {None} :
           LET d == TableDiff(t[1], t[1])
           IN  d.err = "" /\ from_diff(t[1], d.val) = Ok(<<>>)

\* a run on two equal Tables that carry optional attributes has returned no statement
C5_Witness ==
    /\ pc = "returned"
    /\ old = new
    /\ N.location # None
    /\ N.clustered_by # None
    /\ statements[1] = <<>>

\* ---------------------------------------------------------------------------
\* the statements the priority order asks for, from the keys of the diff record
ExpectedKinds(d) ==
    LET columns == IF DictHas(d, "columns") THEN DictGet(d, "columns") ELSE <<>>
        changed == IF DictHas(columns, "changed") THEN DictGet(columns, "changed") ELSE <<>>
        Step(key, kind) == IF DictHas(d, key) THEN <<kind>> ELSE <<>>
    IN  (IF DictHas(columns, "added") THEN <<"ADD COLUMNS">> ELSE <<>>)
        \o [i \in DOMAIN changed |-> "CHANGE COLUMN"]
        \o Step("clustered_by", "SET CLUSTERED BY")
        \o Step("location", "SET LOCATION")
        \o Step("modifier", "SET TBLPROPERTIES EXTERNAL")
        \o Step("row_format", "SET ROW FORMAT")
        \o Step("skewed_by", "SET SKEWED BY")
        \o Step("storage", "SET STORED")
        \o Step("table_properties", "SET TBLPROPERTIES")

\* C6: a list that from_diff returns holds, in this order, ADD COLUMNS, the CHANGE COLUMN
\* statements, SET CLUSTERED BY, SET LOCATION, SET TBLPROPERTIES of the modifier, SET ROW
\* FORMAT, SET SKEWED BY, SET STORED, SET TBLPROPERTIES of the table properties; a
\* statement is there exactly when the diff record has its key, whatever the order in
\* which the keys were put into the record.
C6_PriorityOrder == Returns => StatementKinds = ExpectedKinds(diff[1])

\* the keys went into the diff record in the reverse of the order of the statements
C6_Witness ==
    /\ pc = "returned"
    /\ Keys(diff[1]) = <<"location", "clustered_by", "columns">>
    /\ StatementKinds = <<"CHANGE COLUMN", "SET CLUSTERED BY", "SET LOCATION">>

\* ---------------------------------------------------------------------------
\* new declares the columns old declares, by name and in old's order, and then more
AddsColumns ==
    /\ Len(N.columns) > Len(O.columns)
    /\ \A i \in DOMAIN O.columns : N.columns[i].name = O.columns[i].name

LocationChanged == O.location # None /\ N.location # None /\ O.location # N.location

\* C7: when new adds columns and also changes the location, get_hql_diff returns a list
\* with the ADD COLUMNS statement and the SET LOCATION statement, ADD COLUMNS and every
\* CHANGE COLUMN before SET LOCATION.
C7_AddColumnsBeforeSetLocation ==
    (Finished /\ AddsColumns /\ LocationChanged)
        => /\ Returns
           /\ \E i, j \in DOMAIN statements[1] :
                  /\ StatementKinds[i] = "ADD COLUMNS"
                  /\ StatementKinds[j] = "SET LOCATION"
                  /\ i < j
                  /\ \A k \in DOMAIN statements[1] :
                         StatementKinds[k] = "CHANGE COLUMN" => k < j

\* ---------------------------------------------------------------------------
ComparedAttributes ==
    {"name", "comment", "modifier", "location", "clustered_by", "row_format", "skewed_by",
     "storage", "table_properties"}

\* C8: the record TableDiff.diff returns has an attribute, with new's value, if and only
\* if old's value differs from new's and new's value is present.
C8_DiffHoldsWhatDiffers ==
    diff # None =>
        \A attr \in ComparedAttributes :
            /\ DictHas(diff[1], attr) <=> (O[attr] # N[attr] /\ Truthy(attr, N[attr]))
            /\ DictHas(diff[1], attr) => DictGet(diff[1], attr) = AttrValue(attr, N[attr])

\* ---------------------------------------------------------------------------
\* old has the attribute, new has not, and the tables are otherwise equal
OnlyRemoved(attr) ==
    /\ O[attr] # None
    /\ N[attr] = None
    /\ SameAttributes(AllAttributes \ {attr})
    /\ O.columns = N.columns

\* C9: when one optional attribute is present in old and absent in new and nothing else
\* differs, TableDiff.diff completes, its record has no entry for the attribute and
\* get_hql_diff returns the empty list.
C9_RemovedAttributeIsIgnored ==
    \A attr \in EntityAttributes :
        (Finished /\ OnlyRemoved(attr))
            => /\ Returns
               /\ ~DictHas(diff[1], attr)
               /\ statements[1] = <<>>

\* ---------------------------------------------------------------------------
\* both tables have the attribute, with different values, and are otherwise equal
OnlyChanged(attr) ==
    /\ O[attr] # None
    /\ N[attr] # None
    /\ O[attr] # N[attr]
    /\ SameAttributes(AllAttributes \ {attr})
    /\ O.columns = N.columns

\* the HQL form of an entity, by the attribute that holds it
EntityHql(attr, v) ==
    CASE attr = "location" -> LocationHql(v)
      [] attr = "clustered_by" -> ClusteredByHql(v)
      [] attr = "row_format" -> RowFormatHql(v)
      [] attr = "skewed_by" -> SkewedByHql(v)
      [] attr = "storage" -> StorageHql(v)
      [] attr = "table_properties" -> TablePropertiesHql(v)

\* C10: when both tables carry a value for one of clustered_by, location, row_format,
\* skewed_by, storage, table_properties, the two values differ and everything else is
\* equal, get_hql_diff returns exactly one statement: ALTER TABLE <back-quoted name of the
\* table> SET <the HQL form of new's value>;
C10_OneSetStatement ==
    \A attr \in EntityAttributes :
        (Finished /\ OnlyChanged(attr))
            => /\ Returns
               /\ Len(statements[1]) = 1
               /\ statements[1][1] =
                      <<"ALTER TABLE ", BACK_QUOTE, N.name, BACK_QUOTE, " SET ">>
                      \o EntityHql(attr, N[attr][1]) \o <<";">>

\* scenario 2: LOCATION '/x' became LOCATION '/y' and nothing else differs
C10_Witness ==
    /\ pc = "done"
    /\ OnlyChanged("location")
    /\ printed = <<"ALTER TABLE {bq}t{bq} SET LOCATION '/y';">>

(***************************************************************************)
(* Runs of the tool on statements that differ in their column lists only   *)
(***************************************************************************)

\* a column definition with a length and a comment, as COLUMN_DEF names its results
ColumnDefOf(name, type, length, comment) ==
    [column_name |-> name, column_type |-> PyStr(type), length |-> length,
     comment |-> comment]

ColumnVariants ==
    {ColumnDef("a", "INT"), ColumnDef("a", "STRING"),
     ColumnDefOf("a", "VARCHAR", Some("10"), None),
     ColumnDefOf("a", "VARCHAR", Some("20"), None),
     ColumnDefOf("a", "INT", None, Some("'x'")),
     ColumnDef("b", "INT"), ColumnDefOf("b", "INT", None, Some("'x'")),
     ColumnDef("c", "INT")}

\* the column lists of at most MaxColumns of these columns, no name twice
ColumnVariantLists ==
    UNION {{l \in [1..k -> ColumnVariants] :
               \A i, j \in 1..k : i # j => l[i].column_name # l[j].column_name}
           : k \in 1..MaxColumns}

NoClause == [k \in Clauses |-> ClauseOf(k, Unused(k)[1])]

InitColumns ==
    /\ pc = "start"
    /\ \E old_columns \in ColumnVariantLists, new_columns \in ColumnVariantLists :
           /\ old_hql = Statement(old_columns, NoClause)
           /\ new_hql = Statement(new_columns, NoClause)
    /\ old = None
    /\ new = None
    /\ diff = None
    /\ statements = None
    /\ printed = <<>>
    /\ error = ""

SpecColumns == InitColumns /\ [][Next]_vars

\* ---------------------------------------------------------------------------
\* the columns of new that old has not, in new's order
ExpectedAdded ==
    SelectSeq(N.columns, LAMBDA c : c.name \notin ColumnsKeys(O.columns))

\* the columns of new that old has with another type, length or comment, in new's order
ExpectedChanged ==
    SelectSeq(N.columns, LAMBDA c : /\ c.name \in ColumnsKeys(O.columns)
                                    /\ ColumnsGet(O.columns, c.name)[1] # c)

ListOf(d, key) == IF DictHas(d, key) THEN DictGet(d, key) ELSE <<>>

\* C11: when no column of old is missing from new, diff_columns puts the columns of new
\* that old has not in added, the columns that old has with another type, length or
\* comment in changed, and an equal column in neither; both lists are in new's order and
\* share no column. The columns entry of the diff record is that result.
C11_ColumnsClassified ==
    (new # None /\ ColumnsKeys(O.columns) \subseteq ColumnsKeys(N.columns))
        => LET r == diff_columns(O.columns, N.columns)
           IN  /\ r.err = ""
               /\ ListOf(r.val, "added") = ExpectedAdded
               /\ ListOf(r.val, "changed") = ExpectedChanged
               /\ \A i \in DOMAIN ListOf(r.val, "added") :
                  \A j \in DOMAIN ListOf(r.val, "changed") :
                      ListOf(r.val, "added")[i].name # ListOf(r.val, "changed")[j].name
               /\ (diff # None /\ DictHas(diff[1], "columns"))
                      => DictGet(diff[1], "columns") = r.val

\* b got a comment, c is new and a is as it was: b is changed, c is added, a is in neither
C11_Witness ==
    /\ pc = "diffed"
    /\ [i \in DOMAIN O.columns |-> O.columns[i].name] = <<"a", "b">>
    /\ [i \in DOMAIN N.columns |-> N.columns[i].name] = <<"c", "a", "b">>
    /\ O.columns[1] = N.columns[2]
    /\ O.columns[2].comment = None
    /\ N.columns[3].comment = Some("'x'")
    /\ Keys(DictGet(diff[1], "columns")) = <<"added", "changed">>
    /\ DictGet(DictGet(diff[1], "columns"), "added") = <<N.columns[1]>>
    /\ DictGet(DictGet(diff[1], "columns"), "changed") = <<N.columns[3]>>

\* ---------------------------------------------------------------------------
\* C12: for a diff whose columns entry has k changed columns (and no partition entry),
\* from_diff returns a list with exactly k CHANGE COLUMN statements, the i-th of them
\* change_column of the i-th changed column as new defines it, right after the one ADD
\* COLUMNS statement when columns were added and first in the list otherwise.
C12_ChangeColumnPerChangedColumn ==
    (Finished /\ diff # None /\ DictHas(diff[1], "columns") /\ ~DictHas(diff[1], "partition"))
        => /\ Returns
           /\ LET columns == DictGet(diff[1], "columns")
                  changed == ListOf(columns, "changed")
                  first == IF DictHas(columns, "added") THEN 1 ELSE 0
              IN  /\ SelectSeq(statements[1], LAMBDA st : StatementKind(st) = "CHANGE COLUMN")
                         = [i \in DOMAIN changed |-> change_column(N, changed[i]).val]
                  /\ \A i \in DOMAIN changed :
                         /\ statements[1][first + i] = change_column(N, changed[i]).val
                         /\ changed[i] = ColumnsGet(N.columns, changed[i].name)[1]
                  /\ Len(SelectSeq(statements[1],
                                   LAMBDA st : StatementKind(st) = "ADD COLUMNS")) = first
                  /\ first = 1 => StatementKind(statements[1][1]) = "ADD COLUMNS"

\* ---------------------------------------------------------------------------
\* the statements of the returned list that set the EXTERNAL table property
ModifierStatements ==
    SelectSeq(statements[1], LAMBDA st : StatementKind(st) = "SET TBLPROPERTIES EXTERNAL")

\* C13: when the diff has a modifier entry, the list from_diff returns has exactly one
\* statement for it: ALTER TABLE <name> SET TBLPROPERTIES('EXTERNAL'='TRUE'); when the
\* new modifier is EXTERNAL and ...('EXTERNAL'='FALSE'); otherwise.
C13_ModifierStatement ==
    (Returns /\ DictHas(diff[1], "modifier"))
        => /\ Len(ModifierStatements) = 1
           /\ DictGet(diff[1], "modifier") = N.modifier[1]
           /\ Str(ModifierStatements[1]) =
                  "ALTER TABLE " \o BACK_QUOTE \o N.name \o BACK_QUOTE
                  \o " SET TBLPROPERTIES('EXTERNAL'="
                  \o (IF N.modifier = Some("EXTERNAL") THEN "'TRUE'" ELSE "'FALSE'")
                  \o ");"

\* CREATE EXTERNAL TABLE became CREATE TEMPORARY TABLE
C13_Witness ==
    /\ pc = "done"
    /\ O.modifier = Some("EXTERNAL")
    /\ N.modifier = Some("TEMPORARY")
    /\ printed = <<"ALTER TABLE {bq}t{bq} SET TBLPROPERTIES('EXTERNAL'='FALSE');">>

\* ---------------------------------------------------------------------------
\* C16: no partial success in a CLI run: statements are printed only after both inputs
\* are parsed and the whole statement list is generated, what is printed is the start of
\* that list, and a run that fails in parsing, diffing or generation has printed nothing
\* and has no statement list.
C16_NoPartialSuccess ==
    /\ printed # <<>> =>
           /\ pc \in {"returned", "done"}
           /\ old # None /\ new # None /\ diff # None /\ statements # None
           /\ Len(printed) <= Len(statements[1])
           /\ \A i \in DOMAIN printed : printed[i] = Str(statements[1][i])
    /\ pc = "done" => Len(printed) = Len(statements[1])
    /\ pc = "failed" => printed = <<>> /\ statements = None

\* generation fails on a diff that also holds an entry a statement could be built for
C16_Witness ==
    /\ pc = "failed"
    /\ diff # None
    /\ DictHas(diff[1], "partition")
    /\ DictHas(diff[1], "location")
    /\ error = "UnsafeOperationException"
    /\ printed = <<>>
    /\ statements = None

\* ---------------------------------------------------------------------------
\* C19: TableDiff.diff and HQLStatement.from_diff leave their inputs unchanged: when
\* get_hql_diff(old, new) has returned or raised, old and new are the Tables that
\* get_table built, columns and their order included, and the diff record is the one
\* that TableDiff.diff built.
C19_InputsUnchanged ==
    Finished =>
        /\ old = Some(parse_create_table(old_hql).val)
        /\ new = Some(parse_create_table(new_hql).val)
        /\ diff # None => diff = Some(TableDiff(O, N).val)

\* get_hql_diff returned statements for added columns and a changed location
C19_Witness ==
    /\ Returns
    /\ DictHas(diff[1], "columns")
    /\ DictHas(DictGet(diff[1], "columns"), "added")
    /\ DictHas(diff[1], "location")
    /\ Len(statements[1]) >= 2
    /\ new = Some(parse_create_table(new_hql).val)
    /\ Len(N.columns) > Len(O.columns)

\* ---------------------------------------------------------------------------
StartsWith(s, prefix) == Len(s) >= Len(prefix) /\ SubSeq(s, 1, Len(prefix)) = prefix

EndsWith(s, suffix) ==
    Len(s) >= Len(suffix) /\ SubSeq(s, Len(s) - Len(suffix) + 1, Len(s)) = suffix

\* C20: every string in a list returned by get_hql_diff(old, new) starts with ALTER TABLE
\* followed by the back-quoted name of the table and ends with a semicolon.
C20_AlterTableStatements ==
    Returns =>
        \A i \in DOMAIN statements[1] :
            /\ StartsWith(Str(statements[1][i]),
                          "ALTER TABLE " \o BACK_QUOTE \o N.name \o BACK_QUOTE \o " ")
            /\ EndsWith(Str(statements[1][i]), ";")

\* get_hql_diff returned an ADD COLUMNS, a CHANGE COLUMN and a SET statement
C20_Witness ==
    /\ Returns
    /\ Len(statements[1]) = 3
    /\ StartsWith(Str(statements[1][1]), "ALTER TABLE {bq}t{bq} ADD COLUMNS (")
    /\ StartsWith(Str(statements[1][2]), "ALTER TABLE {bq}t{bq} CHANGE COLUMN ")
    /\ StartsWith(Str(statements[1][3]), "ALTER TABLE {bq}t{bq} SET ")
    /\ EndsWith(Str(statements[1][3]), ";")


(***************************************************************************)
(* Beeswax.get_table on the text of one statement, and the round trip of   *)
(* the Table it returns: each entity of the Table written with its hql,    *)
(* the statement put together from them, and that statement parsed again.  *)
(* old_hql is the text given, old the Table of it, new_hql the text put    *)
(* together from old and new the Table of new_hql.                         *)
(***************************************************************************)

\* how deep the complex types of a column nest
MaxDepth == 2

\* the most table settings after the column list of a statement
MaxSettings == 2

PrimitiveTypes == {"INT", "VARCHAR(10)", "DECIMAL", "DECIMAL(3,2)"}

MapKeyTypes == {"STRING", "DECIMAL", "VARCHAR(3)"}

RECURSIVE TypeExpressions(_)
\* the type expressions of at most that depth: ARRAY, MAP, STRUCT and UNION over the
\* expressions of less depth, with and without lengths and comments
TypeExpressions(depth) ==
    IF depth = 0 THEN PrimitiveTypes
    ELSE LET inner == TypeExpressions(depth - 1)
         IN  inner
             \cup {"ARRAY<" \o type \o ">" : type \in inner}
             \cup {"MAP<" \o key \o "," \o type \o ">" : key \in MapKeyTypes, type \in inner}
             \cup {"STRUCT<x:" \o type \o ">" : type \in inner}
             \cup {"STRUCT<x:" \o type \o " COMMENT 'c'>" : type \in inner}
             \cup {"STRUCT<x:" \o first \o ",y:" \o type \o ">" :
                       first \in {"INT", "DECIMAL"}, type \in inner}
             \cup {"UNION<" \o type \o ">" : type \in inner}
             \cup {"UNION<" \o first \o "," \o type \o ">" :
                       first \in {"INT", "DECIMAL"}, type \in inner}

\* a table of one column of each of these types
TypeStatements == {"CREATE TABLE t (a " \o type \o ")" : type \in TypeExpressions(MaxDepth)}

\* the table settings of the statements: two or three forms of each of the six clauses
Settings ==
    {"LOCATION '/x'", "LOCATION '/y'",
     "CLUSTERED BY (a) INTO 4 BUCKETS",
     "CLUSTERED BY ({bq}b{bq}) SORTED BY (a ASC, b) INTO 08 BUCKETS",
     "SKEWED BY (a) ON (1, 2)", "SKEWED BY (a) ON ('x') STORED AS DIRECTORIES",
     "ROW FORMAT DELIMITED FIELDS TERMINATED BY ','",
     "ROW FORMAT DELIMITED LINES TERMINATED BY 'n'", "ROW FORMAT SERDE 'x'",
     "STORED BY 'x' WITH SERDEPROPERTIES('k'='v')",
     "STORED BY 'y' WITH SERDEPROPERTIES('k'='w')", "STORED AS ORC",
     "TBLPROPERTIES('k'='v')", "TBLPROPERTIES('k'='w', 'l'='v')"}

\* the word that starts each of the six clauses
ClauseWords == {"CLUSTERED", "SKEWED", "ROW", "STORED", "LOCATION", "TBLPROPERTIES"}

SettingLists == UNION {[1..k -> Settings] : k \in 0..MaxSettings}

TableHeads ==
    {"CREATE TABLE t (a INT)",
     "CREATE EXTERNAL TABLE IF NOT EXISTS {bq}t{bq} (a INT COMMENT 'x', b STRING) COMMENT 'c'"}

\* a statement with these table settings, in this order
SettingStatement(head, settings) ==
    Str(<<head>> \o [i \in 1..(2 * Len(settings)) |->
                        IF i % 2 = 1 THEN " " ELSE settings[i \div 2]])

SettingStatements ==
    {SettingStatement(head, settings) : head \in TableHeads, settings \in SettingLists}

\* complete statements, for what may follow one
CompleteStatements ==
    {"CREATE TABLE t (a INT)", "CREATE TABLE t (a INT) LOCATION '/x'",
     "CREATE TABLE t (a INT) PARTITIONED BY (ds STRING)",
     "CREATE TABLE t (a INT) ROW FORMAT DELIMITED"}

\* white space and one optional semicolon
Endings == {"", ";", " ", "\n", " ;", "; ", " ; \n"}

\* what cannot go on a statement, after it
Trailers ==
    {";;", "; ;", " x", "; x", ")", ",", ", b INT", " LOCATION", " COMMENT", " -- c", ";)",
     "; CREATE TABLE u (a INT)", " CREATE TABLE u (a INT)", " 'x'", " 1"}

TrailedStatements ==
    {statement \o ending : statement \in CompleteStatements, ending \in Endings \cup Trailers}

\* statements with a storage clause that has no serde properties
StorageStatements ==
    {head \o storage :
         head \in TableHeads \cup {"CREATE TABLE t (a INT) LOCATION '/x'"},
         storage \in {" STORED AS ORC", " STORED AS TEXTFILE",
                      " STORED AS INPUTFORMAT 'i' OUTPUTFORMAT 'o'", " STORED BY 'x'"}}

\* statements with bucket counts written with one or two digits, zeros among them
BucketStatements ==
    {"CREATE TABLE t (a INT, b INT) CLUSTERED BY (" \o cols \o ") INTO " \o buckets
         \o " BUCKETS" :
         cols \in {"a", "b, a"}, buckets \in {"0", "1", "00", "10", "32"}}

Statements ==
    TypeStatements \cup SettingStatements \cup TrailedStatements \cup StorageStatements
        \cup BucketStatements

InitParse ==
    /\ pc = "text"
    /\ old_hql \in Statements
    /\ new_hql = None
    /\ old = None
    /\ new = None
    /\ diff = None
    /\ statements = None
    /\ printed = <<>>
    /\ error = ""

\* old = Beeswax.get_table(old_hql)
GetTable ==
    /\ pc = "text"
    /\ LET table == BeeswaxGetTable(old_hql)
       IN  IF table.err # ""
           THEN /\ pc' = "rejected"
                /\ error' = table.err
                /\ UNCHANGED old
           ELSE /\ pc' = "table"
                /\ old' = Some(table.val)
                /\ UNCHANGED error
    /\ UNCHANGED <<old_hql, new_hql, new, diff, statements, printed>>

\* the statement of a Table: CREATE, its modifier, TABLE, its name in back quotes, the hql
\* of its columns between parentheses, then the hql of each entity that it has
StatementOf(table) ==
    LET Entity(attr) ==
            IF table[attr] = None THEN <<>> ELSE <<" ">> \o EntityHql(attr, table[attr][1])
    IN  OnOk(AllOk([i \in DOMAIN table.columns |-> ColumnHql(table.columns[i])]),
             LAMBDA columns :
                 Ok(Str(<<"CREATE ">>
                        \o (IF table.modifier = None THEN <<>>
                            ELSE <<table.modifier[1], " ">>)
                        \o <<"TABLE ", BACK_QUOTE, table.name, BACK_QUOTE, " (">>
                        \o Join(", ", columns) \o <<")">>
                        \o Entity("clustered_by") \o Entity("location")
                        \o Entity("row_format") \o Entity("skewed_by")
                        \o Entity("storage") \o Entity("table_properties"))))

\* new_hql = the statement of old; the hql of a column may raise
Render ==
    /\ pc = "table"
    /\ LET statement == StatementOf(old[1])
       IN  IF statement.err # ""
           THEN /\ pc' = "unrendered"
                /\ error' = statement.err
                /\ UNCHANGED new_hql
           ELSE /\ pc' = "rendered"
                /\ new_hql' = statement.val
                /\ UNCHANGED error
    /\ UNCHANGED <<old_hql, old, new, diff, statements, printed>>

\* new = Beeswax.get_table(new_hql)
Reparse ==
    /\ pc = "rendered"
    /\ LET table == BeeswaxGetTable(new_hql)
       IN  IF table.err # ""
           THEN /\ pc' = "unparsed"
                /\ error' = table.err
                /\ UNCHANGED new
           ELSE /\ pc' = "reparsed"
                /\ new' = Some(table.val)
                /\ UNCHANGED error
    /\ UNCHANGED <<old_hql, new_hql, old, diff, statements, printed>>

NextParse == GetTable \/ Render \/ Reparse

SpecParse == InitParse /\ [][NextParse]_vars

\* C14: for a Table built from valid DDL (one without partition columns, which no entity
\* writes), writing each entity with its hql, putting a CREATE TABLE statement together
\* from them and parsing it again yields a Table equal to the first, field by field
C14_RoundTrip ==
    pc \in {"unrendered", "unparsed", "reparsed"} /\ O.partition = None
        => pc = "reparsed" /\ N = O

\* C15: HQLType.generate returns a string, and does not raise, for the type of every
\* column of a Table that the parser built
C15_GenerateTotal ==
    old # None =>
        \A i \in DOMAIN O.columns :
            IsList(O.columns[i].type) => generate(O.columns[i].type.list).err = ""

ParseErrors == {"ParseException", "ParseSyntaxException"}

\* how many times a clause is among the tokens of a statement: the times its first word
\* is (STORED AS DIRECTORIES belongs to SKEWED BY)
ClauseCount(tokens, word) ==
    LET Times(w) == Cardinality({i \in DOMAIN tokens : tokens[i] = w})
    IN  IF word = "STORED" THEN Times("STORED") - Times("DIRECTORIES") ELSE Times(word)

\* C17: a statement whose table settings are clauses of different kinds, in whatever
\* order, is not rejected by the parser, and a statement in which one of the six clauses
\* appears twice is rejected with a parse error
C17_EachClauseAtMostOnce ==
    pc # "text" /\ old_hql \in SettingStatements =>
        LET tokens == Lex(old_hql)
        IN  IF \E word \in ClauseWords : ClauseCount(tokens, word) >= 2
            THEN pc = "rejected" /\ error \in ParseErrors
            ELSE ~(pc = "rejected" /\ error \in ParseErrors)

\* C18: when something other than white space and one optional semicolon follows a
\* complete CREATE TABLE statement, parsing fails with a parse error and there is no Table
C18_NothingAfterStatement ==
    pc # "text" =>
        \A statement \in CompleteStatements, trailer \in Trailers :
            old_hql = statement \o trailer =>
                pc = "rejected" /\ error = "ParseException" /\ old = None

C18_Witness ==
    /\ pc = "rejected"
    /\ old_hql = "CREATE TABLE t (a INT) LOCATION '/x'; CREATE TABLE u (a INT)"
    /\ parse("CREATE TABLE t (a INT) LOCATION '/x'").err = ""
    /\ error = "ParseException"
    /\ old = None

\* ---------------------------------------------------------------------------
\* the tokens of the type of column a in a statement CREATE TABLE t (a <type>)
TypeTokens(hql) == LET tokens == Lex(hql) IN SubSeq(tokens, 6, Len(tokens) - 1)

\* a DECIMAL or NUMERIC without a length is a member of a MAP, a STRUCT or a UNION: it
\* is not the type of the column, nor the element type of an ARRAY
BareDecimalMember(tokens) ==
    \E k \in 2..Len(tokens) :
        /\ In(PyStr(tokens[k]), DECIMAL_TYPES)
        /\ (k = Len(tokens) \/ tokens[k + 1] # "(")
        /\ ~(k >= 3 /\ tokens[k - 1] = "<" /\ tokens[k - 2] = "ARRAY")

\* C21: when a DECIMAL or NUMERIC without a length is a member of a MAP, STRUCT or UNION
\* of the type of a column, the type is rendered, and its rendering has the tokens of
\* the type as the statement gave it: no parentheses after that member, what follows it
\* as elements of their own, a length only where the statement has one
C21_BareDecimalMember ==
    /\ old # None
    /\ old_hql \in TypeStatements
    /\ BareDecimalMember(TypeTokens(old_hql))
    => LET type_def == ColumnTypeDef(O.columns[1])
       IN  /\ type_def.err = ""
           /\ Lex(Str(type_def.val)) = TypeTokens(old_hql)

\* ---------------------------------------------------------------------------
\* C22: get_table of a statement with STORED AS <file format>, or with STORED BY
\* '<class>' without WITH SERDEPROPERTIES, returns a Table whose Storage has the
\* qualifier of the statement, AS or BY, and no serde properties
C22_StorageWithoutSerdeProperties ==
    pc # "text" /\ old_hql \in StorageStatements =>
        /\ pc # "rejected"
        /\ old # None
        /\ O.storage # None
        /\ \E k \in DOMAIN Lex(old_hql) :
               /\ Lex(old_hql)[k] = "STORED"
               /\ O.storage[1].storage_qualifier = Lex(old_hql)[k + 1]
        /\ O.storage[1].serde_properties = None

\* ---------------------------------------------------------------------------
\* C23: the comment of the table, the quoted string after COMMENT that follows the
\* column list of the statement, is the comment of the Table that get_table returns
C23_TableCommentStored ==
    pc # "text" /\ old # None /\ old_hql \in SettingStatements =>
        \A k \in DOMAIN Lex(old_hql) :
            Lex(old_hql)[k] = ")" /\ Tok(Lex(old_hql), k + 1) = "COMMENT"
                => O.comment = Some(Lex(old_hql)[k + 2])

\* ---------------------------------------------------------------------------
\* C24: the ClusteredBy of a Table that get_table returns has at least one bucket
\* column, in the order of the statement, and a bucket count that is an integer greater
\* than 0
C24_PositiveBuckets ==
    pc # "text" /\ old # None /\ O.clustered_by # None =>
        /\ O.clustered_by[1].columns # <<>>
        /\ old_hql \in BucketStatements =>
               O.clustered_by[1].columns \in {<<"a">>, <<"b", "a">>}
        /\ O.clustered_by[1].buckets \in Nat
        /\ O.clustered_by[1].buckets > 0

\* ---------------------------------------------------------------------------
\* new declares the columns of old, each with the definition it has in old, in another
\* order
ColumnsReordered ==
    /\ Len(N.columns) = Len(O.columns)
    /\ {N.columns[i] : i \in DOMAIN N.columns} = {O.columns[i] : i \in DOMAIN O.columns}
    /\ N.columns # O.columns

\* C25: when new has the columns of old, with equal definitions, in a different
\* declaration order, get_hql_diff raises UnsafeOperationException
C25_ReorderingIsUnsafe ==
    (Finished /\ ColumnsReordered)
        => /\ Raises("UnsafeOperationException")
           /\ statements = None

\* ---------------------------------------------------------------------------
\* C26: when get_hql_diff returns an ADD COLUMNS statement, the statement is the one of
\* the columns of new that old has not, and new declares each of them after every
\* column whose name old has too
C26_AddColumnsAtTheEnd ==
    Returns =>
        \A s \in DOMAIN statements[1] :
            StatementKind(statements[1][s]) = "ADD COLUMNS" =>
                /\ statements[1][s] = add_columns(N, AddedColumns).val
                /\ \A i, j \in DOMAIN N.columns :
                       /\ N.columns[i].name \notin ColumnsKeys(O.columns)
                       /\ N.columns[j].name \in ColumnsKeys(O.columns)
                       => j < i

\* ---------------------------------------------------------------------------
\* old and new have the same columns and attributes, but for the name or the comment
OnlyNameOrCommentDiffer ==
    /\ SameAttributes(AllAttributes \ {"name", "comment"})
    /\ O.columns = N.columns
    /\ ~SameAttributes({"name", "comment"})

\* the Tables that differ from these two in their comments only, new's comment set
CommentVariants ==
    {<<[O EXCEPT !.comment = o], [N EXCEPT !.comment = Some(n)]>> :
         o \in {None, Some("'c'")}, n \in {"'c'", "'d'"}}

InitModifiers ==
    /\ pc = "start"
    /\ \E old_modifier \in 0..2, new_modifier \in 0..2 :
       \E other \in Clauses \ {"table_modifier"} :
       \E case \in ClauseCases(other) \cup {Unused(other)} :
           LET Case(k) == IF k = "table_modifier" THEN <<old_modifier, new_modifier>>
                          ELSE IF k = other THEN case
                          ELSE Unused(k)
           IN  /\ old_hql = Statement(OldColumns, [k \in Clauses |-> ClauseOf(k, Case(k)[1])])
               /\ new_hql = Statement(OldColumns, [k \in Clauses |-> ClauseOf(k, Case(k)[2])])
    /\ old = None
    /\ new = None
    /\ diff = None
    /\ statements = None
    /\ printed = <<>>
    /\ error = ""

SpecModifiers == InitModifiers /\ [][Next]_vars

\* C29: when old has a modifier and new has none, the diff record has no modifier entry
\* and get_hql_diff, when it returns, returns no statement for the modifier; and a
\* modifier statement with 'EXTERNAL'='FALSE' is returned only when new's modifier is
\* TEMPORARY and old's is not
C29_ModifierRemovalIsSilent ==
    /\ (diff # None /\ O.modifier # None /\ N.modifier = None)
           => /\ ~DictHas(diff[1], "modifier")
              /\ Returns => ModifierStatements = <<>>
    /\ Returns =>
           \A i \in DOMAIN ModifierStatements :
               EndsWith(Str(ModifierStatements[i]), "('EXTERNAL'='FALSE');")
                   => N.modifier = Some("TEMPORARY") /\ O.modifier # N.modifier

\* CREATE TEMPORARY TABLE became CREATE TABLE, with another location: the one statement
\* is the one of the location
C29_Witness ==
    /\ pc = "done"
    /\ O.modifier = Some("TEMPORARY")
    /\ N.modifier = None
    /\ ~DictHas(diff[1], "modifier")
    /\ DictHas(diff[1], "location")
    /\ Len(printed) = 1
    /\ ModifierStatements = <<>>


(***************************************************************************)
(* cli.py on the texts of two statements that differ in their table        *)
(* properties only: old_hql and new_hql are the texts read from the two    *)
(* files.                                                                  *)
(***************************************************************************)

\* the most key/value pairs in the TBLPROPERTIES of a statement
MaxProperties == 2

\* the pairs of the statements: a key with two values, and a second key
PropertyPairs == {<<"'k'", "'v'">>, <<"'k'", "'w'">>, <<"'l'", "'v'">>}

\* the lists of at most MaxProperties pairs, a pair or a key twice among them
PropertyLists == UNION {[1..k -> PropertyPairs] : k \in 0..MaxProperties}

RECURSIVE PropertyText(_)
\* the pairs as a statement writes them: 'k'='v', 'l'='v'
PropertyText(pairs) ==
    IF pairs = <<>> THEN ""
    ELSE pairs[1][1] \o "=" \o pairs[1][2]
         \o (IF Len(pairs) > 1 THEN ", " ELSE "") \o PropertyText(Tail(pairs))

\* a statement with these table properties, without the clause when there are none
PropertyStatement(pairs) ==
    IF pairs = <<>> THEN "CREATE TABLE t (a INT)"
    ELSE "CREATE TABLE t (a INT) TBLPROPERTIES(" \o PropertyText(pairs) \o ")"

InitProperties ==
    /\ pc = "start"
    /\ \E old_pairs \in PropertyLists, new_pairs \in PropertyLists :
           /\ old_hql = PropertyStatement(old_pairs)
           /\ new_hql = PropertyStatement(new_pairs)
    /\ old = None
    /\ new = None
    /\ diff = None
    /\ statements = None
    /\ printed = <<>>
    /\ error = ""

\* cli.beeswax: Beeswax.get_table of the text of each file, the old one first
GetTablesOfText ==
    /\ pc = "start"
    /\ LET o == BeeswaxGetTable(old_hql)
           n == BeeswaxGetTable(new_hql)
       IN  IF o.err # ""
           THEN /\ pc' = "failed"
                /\ error' = o.err
                /\ UNCHANGED <<old, new>>
           ELSE IF n.err # ""
           THEN /\ pc' = "failed"
                /\ error' = n.err
                /\ old' = Some(o.val)
                /\ UNCHANGED new
           ELSE /\ pc' = "parsed"
                /\ old' = Some(o.val)
                /\ new' = Some(n.val)
                /\ UNCHANGED error
    /\ UNCHANGED <<old_hql, new_hql, diff, statements, printed>>

NextProperties == GetTablesOfText \/ Diff \/ Generate \/ WriteStatements

SpecProperties == InitProperties /\ [][NextProperties]_vars

\* the pairs between the parentheses of TBLPROPERTIES in the text of a statement of
\* PropertyStatement, read off its tokens: CREATE TABLE t ( a INT ) TBLPROPERTIES (
\* key = value , key = value )
PairsOf(hql) ==
    LET tokens == Lex(hql)
    IN  [i \in 1..((Len(tokens) - 9) \div 4) |-> <<tokens[6 + 4 * i], tokens[8 + 4 * i]>>]

\* C27: the TableProperties of a Table are the key/value pairs of its statement, as
\* written and in their order, a key that comes twice kept twice; two of them are equal
\* exactly when they are the same pairs in the same order; and when old and new both
\* have properties and they differ, get_hql_diff returns one statement, SET
\* TBLPROPERTIES with every pair of new in new's order
C27_PropertiesVerbatim ==
    pc # "start" =>
        LET old_pairs == PairsOf(old_hql)
            new_pairs == PairsOf(new_hql)
        IN  /\ old # None /\ new # None
            /\ O.table_properties
                   = (IF old_pairs = <<>> THEN None ELSE Some(TableProperties(old_pairs)))
            /\ N.table_properties
                   = (IF new_pairs = <<>> THEN None ELSE Some(TableProperties(new_pairs)))
            /\ old_pairs # <<>> /\ new_pairs # <<>> =>
                   /\ TablePropertiesEq(O.table_properties[1], N.table_properties).val
                          <=> old_pairs = new_pairs
                   /\ Finished => Returns
                   /\ Returns /\ old_pairs = new_pairs => statements[1] = <<>>
                   /\ Returns /\ old_pairs # new_pairs =>
                          /\ Len(statements[1]) = 1
                          /\ Str(statements[1][1])
                                 = "ALTER TABLE " \o BACK_QUOTE \o "t" \o BACK_QUOTE
                                   \o " SET TBLPROPERTIES(" \o PropertyText(new_pairs)
                                   \o ");"

\* old has a key twice, new has the same pairs in the other order, and the statement
\* printed lists both pairs of new
C27_Witness ==
    /\ pc = "done"
    /\ O.table_properties # None
    /\ N.table_properties # None
    /\ O.table_properties[1].table_properties = << <<"'k'", "'v'">>, <<"'k'", "'w'">> >>
    /\ N.table_properties[1].table_properties = << <<"'k'", "'w'">>, <<"'k'", "'v'">> >>
    /\ printed = <<"ALTER TABLE {bq}t{bq} SET TBLPROPERTIES('k'='w', 'k'='v');">>

====
